---- MODULE Spec2Model ----
(***************************************************************************)
(* Editor-side graph node of the Flow graph (UFlowGraphNode): the live pin *)
(* array, its two views, the stored pin descriptors of the runtime node   *)
(* instance, and ReconstructNode with everything it calls.                 *)
(*                                                                         *)
(* Pins are objects: a pin id stands for the address of a UEdGraphPin.     *)
(* Pins of other nodes (the far ends of wires) are the members of Peers;   *)
(* each side of a wire keeps its own LinkedTo, as in the engine.  LinkedTo *)
(* arrays are kept as sets: no operation modelled here depends on the      *)
(* order of the wires of one pin.                                          *)
(***************************************************************************)
EXTENDS Integers, Sequences, FiniteSets, TLC

\* ------------------------------------------------------------------ bounds
MaxLinks == 2        \* wires drawn between this node and its peers at once
MaxUserPins == 1     \* pins of one direction beyond the class defaults when the user adds one
MaxSubNodes == 2     \* entries of the SubNodes arrays of the graph, all together
MaxCompared == 2     \* descriptors in an array handed to CheckPinsMatch on its own
MaxDeepSubNodes == 3 \* the same entries, where only sub-nodes are added and nodes destroyed

Peers == {"X", "Y"}
NAME_None == "None"
INDEX_NONE == -1
EGPD_Input == "Input"
EGPD_Output == "Output"
SaveAll == "SaveAll"
SaveNone == "SaveNone"

\* FFlowPin: a descriptor (name and pin type)
FlowPin(n, t) == [PinName |-> n, PinType |-> t]
Exec(n) == FlowPin(n, "Exec")

\* the largest number of descriptors a node instance can store in the
\* configurations below: class defaults + context pins + user pins
MaxDescs == 6 + 2 * MaxUserPins
PinIds == 1 .. (2 * MaxDescs + 2 * MaxLinks)

\* ------------------------------------------------------------------ state
VARIABLES
    Pins,            \* UEdGraphNode::Pins, sequence of pin ids
    InputPins,       \* UFlowGraphNode::InputPins (view)
    OutputPins,      \* UFlowGraphNode::OutputPins (view)
    pin,             \* the live UEdGraphPin objects: id -> fields
    peer,            \* LinkedTo of each peer pin: set of pin ids
    NodeInstance,    \* stored descriptors of the UFlowNode: InputPins, OutputPins
    Context,         \* what GetContextInputs / GetContextOutputs return now
    NodeClass,       \* class of the node instance: kind, class-default pins, capabilities
    OrphanCfg,       \* AreOrphanPinsEnabled, bDisableOrphanPinSaving, OrphanedPinSaveMode
    bIsReconstructingNode,
    bIsDestroyingNode,
    bNeedsFullReconstruction,
    pc,              \* position of the single editor thread in this node's handlers
    last,            \* the ReconstructNode calls of the handler in progress: the
                     \* editor conditions they ran under, their locals, pins named
                     \* by their index in OldPins and in Pins
    ParentNode,      \* UFlowGraphNode::ParentNode of each graph node, or NULL
    bIsSubNode,      \* UFlowGraphNode::bIsSubNode of each graph node
    SubNodes,        \* UFlowGraphNode::SubNodes of each graph node
    NodeInstances,   \* what the NodeInstance of each graph node is
    AddOns,          \* the AddOns array of the instance of each graph node
    Garbage,         \* the graph nodes destroyed so far (not IsValid)
    Rebuilds,        \* the calls of RebuildRuntimeAddOnsFromEditorSubNodes the last
                     \* handler made, in the order they returned
    accept,          \* the answer of CanAcceptSubNodeAsChild, when it has just been asked
    bEditorStopped,  \* the editor process has ended on a failed check or a memory fault
    LeftArg,         \* the descriptor arrays a caller passes to CheckPinsMatch
    RightArg,
    match            \* what its calls with these arrays have returned

\* the node whose pins are followed
node == <<Pins, InputPins, OutputPins, pin, peer, NodeInstance, Context, NodeClass,
          OrphanCfg, bIsReconstructingNode, bIsDestroyingNode, bNeedsFullReconstruction,
          pc, last>>

\* the sub-node hierarchy of the graph
hierarchy == <<ParentNode, bIsSubNode, SubNodes, NodeInstances, AddOns, Garbage, Rebuilds,
               accept, bEditorStopped>>

\* a comparison of two descriptor arrays
compared == <<LeftArg, RightArg, match>>

vars == <<node, hierarchy, compared>>

\* ------------------------------------------------------------------ arrays
\* TArray helpers, indices 0-based as in the source
Num(s) == Len(s)
At(s, i) == s[i + 1]
IsValidIndex(s, i) == i >= 0 /\ i < Len(s)
InsertAt(s, e, i) == SubSeq(s, 1, i) \o <<e>> \o SubSeq(s, i + 1, Len(s))
RemoveAt(s, i) == SubSeq(s, 1, i) \o SubSeq(s, i + 2, Len(s))
RemoveAtSwap(s, i) ==
    IF i = Len(s) - 1 THEN SubSeq(s, 1, Len(s) - 1)
    ELSE SubSeq([s EXCEPT ![i + 1] = s[Len(s)]], 1, Len(s) - 1)
Range(s) == {s[i] : i \in 1 .. Len(s)}
RECURSIVE RemoveAll(_, _)
RemoveAll(s, e) ==
    IF s = <<>> THEN <<>>
    ELSE IF Head(s) = e THEN RemoveAll(Tail(s), e)
    ELSE <<Head(s)>> \o RemoveAll(Tail(s), e)
RECURSIVE RemoveSingle(_, _)
RemoveSingle(s, e) ==
    IF s = <<>> THEN <<>>
    ELSE IF Head(s) = e THEN Tail(s)
    ELSE <<Head(s)>> \o RemoveSingle(Tail(s), e)

\* ------------------------------------------------------------------ graph
\* the part of the state the pin operations work on, threaded through them
Graph == [Pins |-> Pins, InputPins |-> InputPins, OutputPins |-> OutputPins,
          pin |-> pin, peer |-> peer]

Referenced(G) ==
    DOMAIN G.pin \cup UNION {G.peer[q] : q \in Peers}
    \cup Range(G.Pins) \cup Range(G.InputPins) \cup Range(G.OutputPins)

\* The program never looks at the address of a pin, only at whether two
\* addresses are the same.  Canon renames the addresses in use so that the pin
\* at position i of Pins has address i and every other address in use follows,
\* in increasing order: states that differ only in the addresses become one.
IndexOf(s, e) == (CHOOSE i \in 1 .. Len(s) : s[i] = e) - 1

Canon(G) ==
    LET Renamed(InUse, Others) ==
            LET Ren(x) == IF x \in Range(G.Pins) THEN IndexOf(G.Pins, x) + 1
                          ELSE Num(G.Pins) + Cardinality({y \in Others : y <= x})
                Inv(k) == CHOOSE x \in DOMAIN G.pin : Ren(x) = k
            IN [Pins |-> [i \in 1 .. Len(G.Pins) |-> Ren(G.Pins[i])],
                InputPins |-> [i \in 1 .. Len(G.InputPins) |-> Ren(G.InputPins[i])],
                OutputPins |-> [i \in 1 .. Len(G.OutputPins) |-> Ren(G.OutputPins[i])],
                pin |-> [k \in {Ren(x) : x \in DOMAIN G.pin} |-> G.pin[Inv(k)]],
                peer |-> [q \in Peers |-> {Ren(x) : x \in G.peer[q]}]]
    IN Renamed(Referenced(G), Referenced(G) \ Range(G.Pins))

\* a new UEdGraphPin object: an address no live pin and no LinkedTo entry holds
NewPinId(G) ==
    LET FirstFree(InUse) ==
            CHOOSE i \in PinIds : i \notin InUse /\ \A j \in 1 .. (i - 1) : j \in InUse
    IN FirstFree(Referenced(G))

\* UEdGraphNode::CreatePin as called at lines 852 and 879
CreatePin(G, Dir, PinType, PinName, Index) ==
    LET NewPin == [PinName |-> PinName, PinType |-> PinType, Direction |-> Dir,
                   bOrphanedPin |-> FALSE, bNotConnectable |-> FALSE,
                   bHidden |-> FALSE, bSavePinIfOrphaned |-> TRUE, LinkedTo |-> {}]
        Created(id) ==
            [G EXCEPT !.Pins = IF IsValidIndex(G.Pins, Index)
                               THEN InsertAt(G.Pins, id, Index)
                               ELSE Append(G.Pins, id),
                      !.pin = [p \in DOMAIN G.pin \cup {id} |->
                                   IF p = id THEN NewPin ELSE G.pin[p]]]
    IN Created(NewPinId(G))

\* the pin CreatePin has just made: the only one G did not have
CreatedPin(G, G1) == CHOOSE p \in DOMAIN G1.pin : p \notin DOMAIN G.pin

CreateInputPin(G, Desc, Index) ==
    LET Listed(G1) == [G1 EXCEPT !.InputPins = Append(G1.InputPins, CreatedPin(G, G1))]
    IN IF Desc.PinName = NAME_None THEN G
       ELSE Listed(CreatePin(G, EGPD_Input, Desc.PinType, Desc.PinName, Index))

CreateOutputPin(G, Desc, Index) ==
    LET Listed(G1) == [G1 EXCEPT !.OutputPins = Append(G1.OutputPins, CreatedPin(G, G1))]
    IN IF Desc.PinName = NAME_None THEN G
       ELSE Listed(CreatePin(G, EGPD_Output, Desc.PinType, Desc.PinName, Index))

\* UEdGraphPin::BreakAllPinLinks: every pin this pin lists forgets it, then the list is emptied
BreakAllPinLinks(G, p) ==
    [G EXCEPT !.peer = [q \in Peers |-> IF q \in G.pin[p].LinkedTo
                                         THEN G.peer[q] \ {p} ELSE G.peer[q]],
              !.pin[p].LinkedTo = {}]

\* UEdGraphNode::DestroyPin / UEdGraphPin::MarkAsGarbage: links broken, object released
DestroyPin(G, p) ==
    LET Released(G1) == [G1 EXCEPT !.pin = [x \in DOMAIN G1.pin \ {p} |-> G1.pin[x]]]
    IN Released(BreakAllPinLinks(G, p))

\* UEdGraphPin::MovePersistentDataFromOldPin: the new pin takes over the wires of
\* the old one (each far end lists the new pin too); the old pin keeps its own
\* list until its links are broken
MovePersistentDataFromOldPin(G, NewPin, OldPin) ==
    [G EXCEPT !.pin[NewPin].LinkedTo = @ \cup G.pin[OldPin].LinkedTo,
              !.peer = [q \in Peers |-> IF q \in G.pin[OldPin].LinkedTo
                                         THEN G.peer[q] \cup {NewPin} ELSE G.peer[q]]]

ReconstructSinglePin(G, NewPin, OldPin) == MovePersistentDataFromOldPin(G, NewPin, OldPin)

\* ------------------------------------------------------- AllocateDefaultPins
RECURSIVE CreateInputPins(_, _)
CreateInputPins(G, Descs) ==
    IF Descs = <<>> THEN G
    ELSE CreateInputPins(CreateInputPin(G, Head(Descs), INDEX_NONE), Tail(Descs))

RECURSIVE CreateOutputPins(_, _)
CreateOutputPins(G, Descs) ==
    IF Descs = <<>> THEN G
    ELSE CreateOutputPins(CreateOutputPin(G, Head(Descs), INDEX_NONE), Tail(Descs))

IsFlowNode == NodeClass.Kind = "FlowNode"

AllocateDefaultPins(G, NI) ==
    IF IsFlowNode
    THEN CreateOutputPins(CreateInputPins(G, NI.InputPins), NI.OutputPins)
    ELSE G

FindNewPin_AnyName(G, OldPin, NewPinMatched, NewPinIndex, NewPinCount) ==
    LET Unclaimed == {n \in 0 .. Num(G.Pins) - 1 : n \notin NewPinMatched}
    IN IF Unclaimed = {} THEN INDEX_NONE ELSE CHOOSE n \in Unclaimed : TRUE

FindNewPin_FromFirst(G, OldPin, NewPinMatched, NewPinIndex, NewPinCount) ==
    LET Found == {n \in 0 .. NewPinCount :
                      /\ n \notin NewPinMatched
                      /\ G.pin[At(G.Pins, n)].PinName = G.pin[OldPin].PinName}
    IN IF Found = {} THEN INDEX_NONE
       ELSE CHOOSE n \in Found : \A m \in Found : n <= m

\* ---------------------------------------------------- RewireOldPinsToNewPins
\* the inner loop (lines 394-413): NewPinCount candidates from NewPinIndex on,
\* cyclically; the index of the first unclaimed new pin of the old pin's name,
\* or INDEX_NONE
RECURSIVE FindNewPin(_, _, _, _, _)
FindNewPin(G, OldPin, NewPinMatched, NewPinIndex, NewPinCount) ==
    IF NewPinCount < 0 THEN INDEX_NONE
    ELSE IF NewPinIndex \notin NewPinMatched
            /\ G.pin[At(G.Pins, NewPinIndex)].PinName = G.pin[OldPin].PinName
         THEN NewPinIndex
         ELSE FindNewPin(G, OldPin, NewPinMatched,
                         (NewPinIndex + 1) % Num(G.Pins), NewPinCount - 1)

ShouldSaveOrphan_NeedsTwoLinks(G, OldPin, bMatched) ==
    /\ OrphanCfg.bOrphanPinsEnabled
    /\ ~OrphanCfg.bDisableOrphanPinSaving
    /\ OrphanCfg.OrphanedPinSaveMode = SaveAll
    /\ ~bMatched
    /\ ~G.pin[OldPin].bHidden
    /\ G.pin[OldPin].bSavePinIfOrphaned
    /\ Cardinality(G.pin[OldPin].LinkedTo) > 1

\* the condition of lines 420-421
ShouldSaveOrphan(G, OldPin, bMatched) ==
    /\ OrphanCfg.bOrphanPinsEnabled
    /\ ~OrphanCfg.bDisableOrphanPinSaving
    /\ OrphanCfg.OrphanedPinSaveMode = SaveAll
    /\ ~bMatched
    /\ ~G.pin[OldPin].bHidden
    /\ G.pin[OldPin].bSavePinIfOrphaned
    /\ Cardinality(G.pin[OldPin].LinkedTo) > 0

\* one pass of the outer loop (lines 389-427)
RewireOldPin(R, OldPinIndex) ==
    LET OldPin == At(R.InOldPins, OldPinIndex)
        NumNewPins == Num(R.G.Pins)
        Start == IF NumNewPins # 0 THEN OldPinIndex % NumNewPins ELSE 0
        Orphaned(R1, bMatched) ==
            IF ShouldSaveOrphan(R1.G, OldPin, bMatched)
            THEN [R1 EXCEPT !.G.pin[OldPin].bOrphanedPin = TRUE,
                            !.G.pin[OldPin].bNotConnectable = TRUE,
                            !.OrphanedOldPins = Append(@, OldPin),
                            !.InOldPins = RemoveAt(@, OldPinIndex)]
            ELSE R1
        Matched(Found) ==
            IF Found # INDEX_NONE
            THEN Orphaned([R EXCEPT
                             !.G = ReconstructSinglePin(R.G, At(R.G.Pins, Found), OldPin),
                             !.MatchedPins = @ \cup {<<OldPin, At(R.G.Pins, Found)>>},
                             !.NewPinMatched = @ \cup {Found}],
                          TRUE)
            ELSE Orphaned(R, FALSE)
    IN Matched(FindNewPin(R.G, OldPin, R.NewPinMatched, Start, NumNewPins - 1))

RECURSIVE RewireLoop(_, _)
RewireLoop(R, OldPinIndex) ==
    IF OldPinIndex < 0 THEN R
    ELSE RewireLoop(RewireOldPin(R, OldPinIndex), OldPinIndex - 1)

AddOrphanedPin_First(G, OrphanedPin) ==
    LET G1 == [G EXCEPT !.Pins = <<OrphanedPin>> \o @]
    IN IF G.pin[OrphanedPin].Direction = EGPD_Input
       THEN [G1 EXCEPT !.InputPins = Append(@, OrphanedPin)]
       ELSE [G1 EXCEPT !.OutputPins = Append(@, OrphanedPin)]

AddOrphanedPin_Dropped(G, OrphanedPin) == G

\* lines 431-449; no pin of a Flow node is ever split, so ParentPin is null
AddOrphanedPin(G, OrphanedPin) ==
    LET G1 == [G EXCEPT !.Pins = Append(@, OrphanedPin)]
    IN IF G.pin[OrphanedPin].Direction = EGPD_Input
       THEN [G1 EXCEPT !.InputPins = Append(@, OrphanedPin)]
       ELSE [G1 EXCEPT !.OutputPins = Append(@, OrphanedPin)]

AddOrphanedPins_Forward(G, OrphanedOldPins, OrphanedIndex) ==
    [G EXCEPT !.Pins = @ \o OrphanedOldPins,
              !.InputPins = @ \o SelectSeq(OrphanedOldPins,
                                           LAMBDA p : G.pin[p].Direction = EGPD_Input),
              !.OutputPins = @ \o SelectSeq(OrphanedOldPins,
                                            LAMBDA p : G.pin[p].Direction = EGPD_Output)]

\* the loop of lines 431-449, from the last of OrphanedOldPins to the first
RECURSIVE AddOrphanedPins(_, _, _)
AddOrphanedPins(G, OrphanedOldPins, OrphanedIndex) ==
    IF OrphanedIndex < 0 THEN G
    ELSE AddOrphanedPins(AddOrphanedPin(G, At(OrphanedOldPins, OrphanedIndex)),
                         OrphanedOldPins, OrphanedIndex - 1)

\* the whole of RewireOldPinsToNewPins; G.Pins holds the new pins on entry.
\* The result keeps the locals: InOldPins as left for the caller, MatchedPins.
RewireOldPinsToNewPins(G, InOldPins) ==
    LET R0 == [G |-> G, InOldPins |-> InOldPins, OrphanedOldPins |-> <<>>,
               NewPinMatched |-> {}, MatchedPins |-> {}]
        Placed(R1) ==
            [R1 EXCEPT !.G = AddOrphanedPins(R1.G, R1.OrphanedOldPins,
                                             Num(R1.OrphanedOldPins) - 1)]
    IN Placed(RewireLoop(R0, Num(InOldPins) - 1))

DestroyOldPins_KeepsLinks(G, OldPins) ==
    [G EXCEPT !.pin = [x \in DOMAIN G.pin \ Range(OldPins) |-> G.pin[x]]]

\* lines 330-335
RECURSIVE DestroyOldPins(_, _)
DestroyOldPins(G, OldPins) ==
    IF OldPins = <<>> THEN G
    ELSE DestroyOldPins(DestroyPin(BreakAllPinLinks(G, Head(OldPins)), Head(OldPins)),
                        Tail(OldPins))

\* the body of "if (bGraphNodeRequiresReconstruction)", lines 318-343
RebuildPins(G, NI) ==
    LET OldPins == G.Pins
        Result(R, G3) ==
            [G |-> Canon(G3),
             MatchedPins |-> {<<IndexOf(OldPins, m[1]), IndexOf(G3.Pins, m[2])>> :
                                  m \in R.MatchedPins},
             Retained |-> {<<IndexOf(OldPins, o), IndexOf(G3.Pins, o)>> :
                               o \in Range(R.OrphanedOldPins) \cap Range(G3.Pins)}]
        Destroyed(R) == Result(R, DestroyOldPins(R.G, R.InOldPins))
        Reset == [G EXCEPT !.Pins = <<>>, !.InputPins = <<>>, !.OutputPins = <<>>]
    IN Destroyed(RewireOldPinsToNewPins(AllocateDefaultPins(Reset, NI), OldPins))

\* ------------------------------------------------------- pin matching
IsValidFlowPin(Desc) == Desc.PinName # NAME_None

\* CleanInvalidPins(TArray<FFlowPin>&): backwards, RemoveAtSwap of the invalid ones
RECURSIVE CleanInvalidFlowPinsFrom(_, _)
CleanInvalidFlowPinsFrom(Array, i) ==
    IF i < 0 THEN Array
    ELSE IF ~IsValidFlowPin(At(Array, i))
         THEN CleanInvalidFlowPinsFrom(RemoveAtSwap(Array, i), i - 1)
         ELSE CleanInvalidFlowPinsFrom(Array, i - 1)

CleanInvalidFlowPins(Array) == CleanInvalidFlowPinsFrom(Array, Num(Array) - 1)

\* CleanInvalidPins(TArray<UEdGraphPin*>&): the same, removing the orphaned pins
RECURSIVE CleanOrphanedGraphPinsFrom(_, _, _)
CleanOrphanedGraphPinsFrom(G, Array, i) ==
    IF i < 0 THEN Array
    ELSE IF G.pin[At(Array, i)].bOrphanedPin
         THEN CleanOrphanedGraphPinsFrom(G, RemoveAtSwap(Array, i), i - 1)
         ELSE CleanOrphanedGraphPinsFrom(G, Array, i - 1)

CleanOrphanedGraphPins(G, Array) == CleanOrphanedGraphPinsFrom(G, Array, Num(Array) - 1)

CheckPinsMatch_NamesOnly(LeftPins, RightPins) ==
    /\ Num(LeftPins) = Num(RightPins)
    /\ \A l \in 1 .. Len(LeftPins) : \E r \in 1 .. Len(RightPins) :
           LeftPins[l].PinName = RightPins[r].PinName

\* CheckPinsMatch(const TArray<FFlowPin>&, const TArray<FFlowPin>&)
CheckPinsMatch(LeftPins, RightPins) ==
    /\ Num(LeftPins) = Num(RightPins)
    /\ \A l \in 1 .. Len(LeftPins) : \E r \in 1 .. Len(RightPins) :
           /\ LeftPins[l].PinName = RightPins[r].PinName
           /\ LeftPins[l].PinType = RightPins[r].PinType

\* CheckPinsMatch(const TArray<UEdGraphPin*>&, const TArray<FFlowPin>&)
CheckGraphPinsMatch(G, GraphPins, NodePins) ==
    /\ Num(GraphPins) = Num(NodePins)
    /\ \A n \in 1 .. Len(NodePins) : \E g \in 1 .. Len(GraphPins) :
           G.pin[GraphPins[g]].PinName = NodePins[n].PinName

\* ------------------------------------------------------- the refresh steps
\* FlowNodeInstance->InputPins.Empty(..); AddInputPins(Required) (lines 1771-1772,
\* 1781-1782): the stored array is replaced wholesale
ReplaceNodePins_Appends(ExistingPins, RequiredPins) == ExistingPins \o RequiredPins

ReplaceNodePins(ExistingPins, RequiredPins) == RequiredPins

SupportsContextPins == NodeClass.bSupportsContextPins

ShouldRefreshContextPins_IgnoresFlag(bIsLoad, bNeedsFull) ==
    (~bIsLoad \/ NodeClass.bCanRefreshContextPinsOnLoad) /\ SupportsContextPins

\* lines 1730-1732
ShouldRefreshContextPins(bIsLoad, bNeedsFull) ==
    LET bIsAllowedToRefreshPins == ~bIsLoad \/ NodeClass.bCanRefreshContextPinsOnLoad
        bShouldConsiderRefreshingContextPins == bIsAllowedToRefreshPins /\ SupportsContextPins
    IN bShouldConsiderRefreshingContextPins \/ bNeedsFull

TryUpdateNodePins(NI, Ctx, bNeedsFull, Editor) ==
    LET bIsLoad == "Loading" \in Editor
        bShouldRefreshContextPins == ShouldRefreshContextPins(bIsLoad, bNeedsFull)
        Updated(RequiredNodeInputPins, RequiredNodeOutputPins, bInputsMatch, bOutputsMatch) ==
            [bPinsChanged |-> ~bInputsMatch \/ ~bOutputsMatch,
             NI |-> [InputPins |-> IF bInputsMatch THEN NI.InputPins
                                   ELSE ReplaceNodePins(NI.InputPins, RequiredNodeInputPins),
                     OutputPins |-> IF bOutputsMatch THEN NI.OutputPins
                                    ELSE ReplaceNodePins(NI.OutputPins, RequiredNodeOutputPins)]]
        Compared(RequiredNodeInputPins, RequiredNodeOutputPins) ==
            Updated(RequiredNodeInputPins, RequiredNodeOutputPins,
                    CheckPinsMatch(RequiredNodeInputPins, CleanInvalidFlowPins(NI.InputPins)),
                    CheckPinsMatch(RequiredNodeOutputPins, CleanInvalidFlowPins(NI.OutputPins)))
    IN IF ~IsFlowNode THEN [bPinsChanged |-> TRUE, NI |-> NI]
       ELSE IF ~bShouldRefreshContextPins THEN [bPinsChanged |-> FALSE, NI |-> NI]
       ELSE Compared(CleanInvalidFlowPins(NodeClass.InputPins \o Ctx.Inputs),
                     CleanInvalidFlowPins(NodeClass.OutputPins \o Ctx.Outputs))

\* UFlowAsset::TryUpdateManagedFlowPinsForNode: Managed tells whether the asset
\* has a change of the managed pins of the node to apply, and what the
\* context-pin functions of the node return once it is applied (the context
\* pins include the data pins, line 312)
TryUpdateManagedFlowPinsForNode(Managed) == Managed

TryUpdateAutoDataPins(Managed) ==
    IF IsFlowNode THEN TryUpdateManagedFlowPinsForNode(Managed)
    ELSE [bChanged |-> FALSE, Context |-> Context]

CheckGraphPinsMatchNodePins(G, NI) ==
    IF ~IsFlowNode THEN FALSE
    ELSE CheckGraphPinsMatch(G, CleanOrphanedGraphPins(G, G.Pins),
                             CleanInvalidFlowPins(NI.InputPins \o NI.OutputPins))

\* ------------------------------------------------------- ReconstructNode
CanReconstructNode_IgnoresReentrancy(Editor) ==
    /\ ~("Transacting" \in Editor \/ bIsDestroyingNode)
    /\ Editor \cap {"NoInstance", "NoGraph", "Saving", "Locked"} = {}

CanReconstructNode_IgnoresLocked(Editor) ==
    /\ ~("Transacting" \in Editor \/ bIsReconstructingNode \/ bIsDestroyingNode)
    /\ "NoInstance" \notin Editor
    /\ "NoGraph" \notin Editor
    /\ "Saving" \notin Editor

CanReconstructNode(Editor) ==
    /\ ~("Transacting" \in Editor \/ bIsReconstructingNode \/ bIsDestroyingNode)
    /\ "NoInstance" \notin Editor
    /\ "NoGraph" \notin Editor
    /\ "Saving" \notin Editor
    /\ "Locked" \notin Editor

RequiresReconstruction_IgnoresDataPins(bNeedsFull, bDataPinsUpdated, bExecPinsUpdated, bMismatched) ==
    bNeedsFull \/ bExecPinsUpdated \/ bMismatched

RequiresReconstruction_IgnoresFlag(bNeedsFull, bDataPinsUpdated, bExecPinsUpdated, bMismatched) ==
    bDataPinsUpdated \/ bExecPinsUpdated \/ bMismatched

\* line 315
RequiresReconstruction(bNeedsFull, bDataPinsUpdated, bExecPinsUpdated, bMismatched) ==
    bNeedsFull \/ bDataPinsUpdated \/ bExecPinsUpdated \/ bMismatched

ExecutesOnReconstructNodeCompleted_AfterRebuild(bGraphNodeRequiresReconstruction) ==
    bGraphNodeRequiresReconstruction

\* line 348: the completion delegate (bound by the node's widget) is executed
\* whatever the call has done
ExecutesOnReconstructNodeCompleted(bGraphNodeRequiresReconstruction) == TRUE

\* what is known of the calls of ReconstructNode when none is recorded
NoCall == [Call |-> "none", GuardedCall |-> "none", Editor |-> {},
           bFlagWasSet |-> FALSE, bNodeDataPinsUpdated |-> FALSE,
           bNodeExecPinsUpdated |-> FALSE, bAreGraphPinsMismatched |-> FALSE,
           bRebuilt |-> FALSE, OldPins |-> <<>>, MatchedPins |-> {}, Retained |-> {}]

RefreshSteps_ParityFirst(G, NI, bNeedsFull, Managed, Editor) ==
    LET ExecPinsUpdated(Auto, Upd) ==
            [Auto |-> Auto, Upd |-> Upd,
             bAreGraphPinsMismatched |-> ~CheckGraphPinsMatchNodePins(G, NI)]
        DataPinsUpdated(Auto) ==
            ExecPinsUpdated(Auto, TryUpdateNodePins(NI, Auto.Context, bNeedsFull, Editor))
    IN DataPinsUpdated(TryUpdateAutoDataPins(Managed))

\* lines 311-313 of ReconstructNode: TryUpdateAutoDataPins first, TryUpdateNodePins
\* on what it left, CheckGraphPinsMatchNodePins last on what both left
RefreshSteps(G, NI, bNeedsFull, Managed, Editor) ==
    LET ExecPinsUpdated(Auto, Upd) ==
            [Auto |-> Auto, Upd |-> Upd,
             bAreGraphPinsMismatched |-> ~CheckGraphPinsMatchNodePins(G, Upd.NI)]
        DataPinsUpdated(Auto) ==
            ExecPinsUpdated(Auto, TryUpdateNodePins(NI, Auto.Context, bNeedsFull, Editor))
    IN DataPinsUpdated(TryUpdateAutoDataPins(Managed))

\* lines 308-344 of ReconstructNode, after the guard: the three steps, the
\* decision and the rebuild, on the graph G, the stored descriptors NI and the
\* flag as the caller left them
ReconstructBody(G, NI, bNeedsFull, Managed, Editor) ==
    LET Returned(Auto, Upd, bAreGraphPinsMismatched, bRebuild, Rebuilt) ==
            [G |-> IF bRebuild THEN Rebuilt.G ELSE G,
             NI |-> Upd.NI,
             Context |-> Auto.Context,
             bNeedsFull |-> IF bRebuild THEN FALSE ELSE bNeedsFull,
             last |-> [NoCall EXCEPT
                       !.Call = "ran", !.Editor = Editor,
                       !.bFlagWasSet = bNeedsFull,
                       !.bNodeDataPinsUpdated = Auto.bChanged,
                       !.bNodeExecPinsUpdated = Upd.bPinsChanged,
                       !.bAreGraphPinsMismatched = bAreGraphPinsMismatched,
                       !.bRebuilt = bRebuild,
                       !.OldPins = IF bRebuild
                                   THEN [i \in 1 .. Len(G.Pins) |-> G.pin[G.Pins[i]]]
                                   ELSE <<>>,
                       !.MatchedPins = IF bRebuild THEN Rebuilt.MatchedPins ELSE {},
                       !.Retained = IF bRebuild THEN Rebuilt.Retained ELSE {}]]
        Decided(Auto, Upd, bAreGraphPinsMismatched) ==
            Returned(Auto, Upd, bAreGraphPinsMismatched,
                     RequiresReconstruction(bNeedsFull, Auto.bChanged,
                                            Upd.bPinsChanged, bAreGraphPinsMismatched),
                     RebuildPins(G, Upd.NI))
        Stepped(S) == Decided(S.Auto, S.Upd, S.bAreGraphPinsMismatched)
    IN Stepped(RefreshSteps(G, NI, bNeedsFull, Managed, Editor))

\* a call of ReconstructNode by Handler with the graph, descriptors and flag as
\* the handler has left them.  Guarded: returns at line 305.  Otherwise runs up
\* to the completion delegate (line 348), where the thread is in the callback
\* with bIsReconstructingNode still set.
ReconstructNode(G, NI, bNeedsFull, Managed, Editor, Handler, ReturnPc) ==
    LET Ran(B, bFired) ==
            /\ pc' = IF bFired THEN "OnReconstructNodeCompleted" ELSE ReturnPc
            /\ bIsReconstructingNode' = bFired
            /\ Pins' = B.G.Pins /\ InputPins' = B.G.InputPins
            /\ OutputPins' = B.G.OutputPins
            /\ pin' = B.G.pin /\ peer' = B.G.peer
            /\ NodeInstance' = B.NI
            /\ Context' = B.Context
            /\ bNeedsFullReconstruction' = B.bNeedsFull
            /\ last' = [B.last EXCEPT !.Call = Handler]
        Called(B) == Ran(B, ExecutesOnReconstructNodeCompleted(B.last.bRebuilt))
    IN IF ~CanReconstructNode(Editor)
       THEN /\ pc' = ReturnPc
            /\ Pins' = G.Pins /\ InputPins' = G.InputPins /\ OutputPins' = G.OutputPins
            /\ pin' = G.pin /\ peer' = G.peer
            /\ NodeInstance' = NI
            /\ bNeedsFullReconstruction' = bNeedsFull
            /\ last' = IF pc = "idle" /\ ReturnPc = "idle" THEN NoCall
                       ELSE [last EXCEPT !.GuardedCall = Handler]
            /\ UNCHANGED <<Context, bIsReconstructingNode>>
       ELSE Called(ReconstructBody(G, NI, bNeedsFull, Managed, Editor))

\* ------------------------------------------------------- configurations
\* node classes: class-default pins (the CDO's), capabilities, and the context
\* inputs the class can come to compute (GetContextInputs)
NoContext == {<<>>}
BranchClass ==
    [Kind |-> "FlowNode", InputPins |-> <<Exec("A")>>, OutputPins |-> <<Exec("A")>>,
     bSupportsContextPins |-> TRUE, bCanRefreshContextPinsOnLoad |-> FALSE,
     bCanUserAddInput |-> FALSE, bCanUserAddOutput |-> FALSE, bReordersPins |-> FALSE,
     ContextInputs |-> {<<>>, <<Exec(NAME_None), Exec("B")>>}]
\* a Branch whose code reorders its stored input pins
SorterClass == [BranchClass EXCEPT !.bReordersPins = TRUE]
\* a Branch whose context pin can change its type
RetyperClass == [BranchClass EXCEPT !.ContextInputs = @ \cup {<<FlowPin("B", "Bool")>>}]
\* a Branch whose context pin has the name of its default pins
EchoClass == [BranchClass EXCEPT !.ContextInputs = {<<>>, <<Exec("A")>>}]
\* a node whose only pins are the context pins it computes
BareClass == [BranchClass EXCEPT !.InputPins = <<>>, !.OutputPins = <<>>]
SequenceClass ==
    [Kind |-> "FlowNode", InputPins |-> <<Exec("A")>>, OutputPins |-> <<>>,
     bSupportsContextPins |-> FALSE, bCanRefreshContextPinsOnLoad |-> TRUE,
     bCanUserAddInput |-> FALSE, bCanUserAddOutput |-> TRUE, bReordersPins |-> FALSE,
     ContextInputs |-> NoContext]
GateClass ==
    [Kind |-> "FlowNode", InputPins |-> <<>>, OutputPins |-> <<Exec("A")>>,
     bSupportsContextPins |-> FALSE, bCanRefreshContextPinsOnLoad |-> TRUE,
     bCanUserAddInput |-> TRUE, bCanUserAddOutput |-> FALSE, bReordersPins |-> FALSE,
     ContextInputs |-> NoContext]
\* a node without context pins whose class defaults hold an input descriptor
\* left unnamed
BlankPinClass ==
    [Kind |-> "FlowNode", InputPins |-> <<Exec(NAME_None), Exec("A")>>,
     OutputPins |-> <<Exec("A")>>,
     bSupportsContextPins |-> FALSE, bCanRefreshContextPinsOnLoad |-> TRUE,
     bCanUserAddInput |-> FALSE, bCanUserAddOutput |-> FALSE, bReordersPins |-> FALSE,
     ContextInputs |-> NoContext]
AddOnClass ==
    [Kind |-> "AddOn", InputPins |-> <<>>, OutputPins |-> <<>>,
     bSupportsContextPins |-> FALSE, bCanRefreshContextPinsOnLoad |-> TRUE,
     bCanUserAddInput |-> FALSE, bCanUserAddOutput |-> FALSE, bReordersPins |-> FALSE,
     ContextInputs |-> NoContext]

OrphansSaved ==
    [bOrphanPinsEnabled |-> TRUE, bDisableOrphanPinSaving |-> FALSE,
     OrphanedPinSaveMode |-> SaveAll]

Setups ==
    {<<BranchClass, OrphansSaved>>,
     <<BranchClass, [OrphansSaved EXCEPT !.bOrphanPinsEnabled = FALSE]>>,
     <<RetyperClass, [OrphansSaved EXCEPT !.bDisableOrphanPinSaving = TRUE]>>,
     <<SorterClass, [OrphansSaved EXCEPT !.OrphanedPinSaveMode = SaveNone]>>,
     <<SequenceClass, OrphansSaved>>,
     <<GateClass, OrphansSaved>>,
     <<BlankPinClass, OrphansSaved>>,
     <<EchoClass, OrphansSaved>>,
     <<BareClass, OrphansSaved>>,
     <<AddOnClass, OrphansSaved>>}

\* what the context-pin functions of the node may come to return
ContextChoices == {[Inputs |-> i, Outputs |-> <<>>] : i \in NodeClass.ContextInputs}

\* the editor conditions a call of ReconstructNode can find: GIsTransacting, no
\* valid instance, no valid graph, the graph saving, locked or loading; one at a time
EditorConditions == {"Transacting", "NoInstance", "NoGraph", "Saving", "Locked", "Loading"}
EditorStates == {{}} \cup {{c} : c \in EditorConditions}

\* ------------------------------------------------------- sub-node hierarchy
\* the graph nodes of one graph; NULL is the null pointer
Nodes == {"N1", "N2", "N3"}
NULL == "nullptr"

\* what the NodeInstance pointer of a graph node holds: nothing, a UFlowNode, a
\* UFlowNodeAddOn, or a UFlowNodeAddOn that is no longer IsValid
InstanceKinds == {NULL, "FlowNode", "AddOn", "GarbageAddOn"}

\* EFlowAddOnAcceptResult
TentativeAccept == "TentativeAccept"
Reject == "Reject"
Undetermined == "Undetermined"
EFlowAddOnAcceptResult == {Undetermined, Reject, TentativeAccept}

\* the part of the state the hierarchy operations work on, threaded through them
Hierarchy == [ParentNode |-> ParentNode, bIsSubNode |-> bIsSubNode, SubNodes |-> SubNodes,
              NodeInstances |-> NodeInstances, AddOns |-> AddOns, Garbage |-> Garbage,
              Rebuilds |-> <<>>]

\* IsValid(SubNode), IsValid(NodeInstance), IsValid(Cast<UFlowNodeAddOn>(NodeInstance))
IsValidNode(T, n) == n \notin T.Garbage
IsValidInstance(T, n) == T.NodeInstances[n] \in {"FlowNode", "AddOn"}
IsValidAddOn(T, n) == T.NodeInstances[n] = "AddOn"

\* TArray::Add
AddUnique_Appends(s, e) == Append(s, e)

\* TArray::AddUnique
AddUnique(s, e) == IF e \in Range(s) THEN s ELSE Append(s, e)

\* the loop of lines 1299-1318 over Array; an instance is named by its graph node
RECURSIVE MirrorSubNodes(_, _, _)
MirrorSubNodes(T, Array, NodeInstanceAddOns) ==
    IF Array = <<>> THEN NodeInstanceAddOns
    ELSE MirrorSubNodes(T, Tail(Array),
             IF ~IsValidNode(T, Head(Array)) THEN NodeInstanceAddOns
             ELSE IF IsValidAddOn(T, Head(Array))
                  THEN AddUnique(NodeInstanceAddOns, Head(Array))
                  ELSE NodeInstanceAddOns)

ReconstructsAfterRebuild_AnyInstance(T, n) == IsValidInstance(T, n)

\* line 1331: IsValid(NodeInstance) && NodeInstance->IsA<UFlowNode>()
ReconstructsAfterRebuild(T, n) == IsValidInstance(T, n) /\ T.NodeInstances[n] = "FlowNode"

\* RebuildRuntimeAddOnsFromEditorSubNodes on the graph node n: lines 1293-1334.
\* The ReconstructNode of line 1333 changes the pins of n, not the hierarchy:
\* the call is recorded as it returns, with the add-on lists as they are then
\* and whether it has called ReconstructNode.
RECURSIVE RebuildRuntimeAddOnsFromEditorSubNodes(_, _)
RECURSIVE RebuildSubNodes(_, _)
RebuildRuntimeAddOnsFromEditorSubNodes(T, n) ==
    LET Returned(T1) ==
            [T1 EXCEPT !.Rebuilds =
                 Append(@, [Node |-> n,
                            bReconstructNode |-> ReconstructsAfterRebuild(T1, n),
                            AddOns |-> T1.AddOns])]
    IN Returned(RebuildSubNodes(IF IsValidInstance(T, n)
                                THEN [T EXCEPT !.AddOns[n] =
                                          MirrorSubNodes(T, T.SubNodes[n], <<>>)]
                                ELSE T,
                                T.SubNodes[n]))

\* the loop of lines 1322-1328 over Array
RebuildSubNodes(T, Array) ==
    IF Array = <<>> THEN T
    ELSE RebuildSubNodes(IF IsValidNode(T, Head(Array))
                         THEN RebuildRuntimeAddOnsFromEditorSubNodes(T, Head(Array))
                         ELSE T,
                         Tail(Array))

\* the graph nodes the recursion of lines 1322-1328 enters from the nodes of S
ValidSubNodes(T, n) == {m \in Range(T.SubNodes[n]) : IsValidNode(T, m)}

RECURSIVE Entered(_, _)
Entered(T, S) ==
    LET Grown(S1) == IF S1 = S THEN S ELSE Entered(T, S1)
    IN Grown(S \cup UNION {ValidSubNodes(T, m) : m \in S})

\* the recursion from n returns: it enters no node again from below itself
RebuildReturns(T, n) ==
    \A m \in Entered(T, {n}) : m \notin Entered(T, ValidSubNodes(T, m))

\* UFlowGraphNode::IsAncestorNode on n: the loop from CurParentNode
RECURSIVE IsAncestorLoop(_, _, _)
IsAncestorLoop(T, CurParentNode, OtherNode) ==
    IF CurParentNode = NULL THEN FALSE
    ELSE IF CurParentNode = OtherNode THEN TRUE
    ELSE IsAncestorLoop(T, T.ParentNode[CurParentNode], OtherNode)

IsAncestorNode_ParentOnly(T, n, OtherNode) == T.ParentNode[n] = OtherNode

IsAncestorNode(T, n, OtherNode) == IsAncestorLoop(T, T.ParentNode[n], OtherNode)

\* the loop of IsAncestorNode ends: it meets OtherNode or a null parent
RECURSIVE IsAncestorLoopEnds(_, _, _, _)
IsAncestorLoopEnds(T, CurParentNode, OtherNode, Steps) ==
    IF CurParentNode = NULL \/ CurParentNode = OtherNode THEN TRUE
    ELSE IF Steps = 0 THEN FALSE
    ELSE IsAncestorLoopEnds(T, T.ParentNode[CurParentNode], OtherNode, Steps - 1)

IsAccepted_UnlessRejected(AcceptResult) == AcceptResult # Reject

\* lines 1903-1908: only TentativeAccept is an accept result
IsAccepted(AcceptResult) == AcceptResult = TentativeAccept

\* UFlowGraphNode::CanAcceptSubNodeAsChild on n, when CheckAcceptFlowNodeAddOnChild
\* answers AcceptResult if it is called: the result, and whether it was called
CanAcceptSubNodeAsChild(T, n, OtherSubNode, AcceptResult) ==
    IF T.NodeInstances[OtherSubNode] = NULL
    THEN [bResult |-> FALSE, bChecked |-> FALSE]
    ELSE IF IsAncestorNode(T, n, OtherSubNode)
    THEN [bResult |-> FALSE, bChecked |-> FALSE]
    ELSE [bResult |-> IsAccepted(AcceptResult), bChecked |-> TRUE]

SetParentNodeForSubNode_FollowsParent(T, n, InParentNode) ==
    [T EXCEPT !.bIsSubNode[n] = InParentNode # NULL,
              !.ParentNode[n] = InParentNode]

\* UFlowGraphNode::IsSubNode on n
IsSubNode(T, n) == T.bIsSubNode[n] \/ T.ParentNode[n] # NULL

\* UFlowGraphNode::SetParentNodeForSubNode on n
SetParentNodeForSubNode(T, n, InParentNode) ==
    [T EXCEPT !.bIsSubNode[n] = IF InParentNode # NULL THEN TRUE ELSE @,
              !.ParentNode[n] = InParentNode]

\* UFlowGraph::UpdateAsset: the mirror of every node placed on the graph itself
\* is rebuilt
NodeOrder == <<"N1", "N2", "N3">>
IsPlacedOnGraph(T, n) == IsValidNode(T, n) /\ ~T.bIsSubNode[n]

RECURSIVE UpdateAssetFrom(_, _)
UpdateAssetFrom(T, Array) ==
    IF Array = <<>> THEN T
    ELSE UpdateAssetFrom(IF IsPlacedOnGraph(T, Head(Array))
                         THEN RebuildRuntimeAddOnsFromEditorSubNodes(T, Head(Array))
                         ELSE T,
                         Tail(Array))

UpdateAsset(T) == UpdateAssetFrom(T, NodeOrder)

UpdateAssetReturns(T) ==
    \A n \in Nodes : IsPlacedOnGraph(T, n) => RebuildReturns(T, n)

\* no answer of CanAcceptSubNodeAsChild is current
NoAnswer == [bAnswered |-> FALSE, bResult |-> FALSE, bChecked |-> FALSE]

\* CheckPinsMatch has not been called
NoComparison == [Calls |-> 0, bResult |-> FALSE, bSwappedResult |-> FALSE]

NothingCompared == LeftArg = <<>> /\ RightArg = <<>> /\ match = NoComparison

\* a graph of nodes just placed, none attached to another
PlacedNodes(Instances) ==
    /\ ParentNode = [n \in Nodes |-> NULL]
    /\ bIsSubNode = [n \in Nodes |-> FALSE]
    /\ SubNodes = [n \in Nodes |-> <<>>]
    /\ NodeInstances = Instances
    /\ AddOns = [n \in Nodes |-> <<>>]
    /\ Garbage = {}
    /\ Rebuilds = <<>>
    /\ accept = NoAnswer
    /\ bEditorStopped = FALSE

\* ------------------------------------------------------- initial states
\* a node just placed: PostPlacedNewNode has created the instance of the class,
\* whose stored pins are the class defaults, and AllocateDefaultPins has run
EmptyGraph == [Pins |-> <<>>, InputPins |-> <<>>, OutputPins |-> <<>>,
               pin |-> <<>>, peer |-> [q \in Peers |-> {}]]

PlacedNode(S) ==
    /\ NodeClass = S[1]
    /\ OrphanCfg = S[2]
    /\ NodeInstance = [InputPins |-> S[1].InputPins, OutputPins |-> S[1].OutputPins]
    /\ \E G \in {IF S[1].Kind = "FlowNode"
                  THEN CreateOutputPins(CreateInputPins(EmptyGraph, S[1].InputPins),
                                        S[1].OutputPins)
                  ELSE EmptyGraph} :
           /\ Pins = G.Pins /\ InputPins = G.InputPins /\ OutputPins = G.OutputPins
           /\ pin = G.pin /\ peer = G.peer
    /\ Context = [Inputs |-> <<>>, Outputs |-> <<>>]
    /\ bIsReconstructingNode = FALSE
    /\ bIsDestroyingNode = FALSE
    /\ bNeedsFullReconstruction = FALSE
    /\ pc = "idle"
    /\ last = NoCall

\* the node followed is alone in its graph
Init ==
    /\ \E S \in Setups : PlacedNode(S)
    /\ PlacedNodes([n \in Nodes |-> "FlowNode"])
    /\ NothingCompared

\* ------------------------------------------------------- handlers
\* the editor calls the node's handlers when the thread is idle; from inside
\* the completion delegate it can call ReconstructNode and OnExternalChange again
CallPoints == {"idle", "OnReconstructNodeCompleted"}

\* the class can compute a data pin: only such a node has managed pins
HasDataPins ==
    \E i \in NodeClass.ContextInputs : \E k \in 1 .. Len(i) : i[k].PinType # "Exec"

\* no change of the managed pins to apply
NoManagedChange == [bChanged |-> FALSE, Context |-> Context]

\* what TryUpdateManagedFlowPinsForNode may find in a call under Editor: no
\* change, or a change that leaves the context pins as they are or as any of
\* those the class can compute
ManagedPinsChanges(Editor) ==
    IF CanReconstructNode(Editor) /\ HasDataPins
    THEN {NoManagedChange}
         \cup {[bChanged |-> TRUE, Context |-> c] : c \in ContextChoices \cup {Context}}
    ELSE {NoManagedChange}

\* UFlowGraphNode::OnGraphRefresh, a plain call of ReconstructNode, under the
\* editor conditions Editor
OnGraphRefreshUnder(Editor) ==
    /\ pc \in CallPoints
    /\ \E Managed \in ManagedPinsChanges(Editor) :
           ReconstructNode(Graph, NodeInstance, bNeedsFullReconstruction,
                           Managed, Editor, "ReconstructNode", pc)
    /\ UNCHANGED <<NodeClass, hierarchy, compared, OrphanCfg, bIsDestroyingNode>>

OnGraphRefresh == \E Editor \in EditorStates : OnGraphRefreshUnder(Editor)

NeedsFullAfterExternalChange_Keeps(bNeedsFull) == bNeedsFull

\* line 209: what OnExternalChange leaves in bNeedsFullReconstruction
NeedsFullAfterExternalChange(bNeedsFull) == TRUE

\* bound to the instance's OnReconstructionRequested: the instance and the
\* graph it notifies (line 212) exist
OnExternalChangeUnder(Editor) ==
    /\ pc \in CallPoints
    /\ Editor \cap {"NoInstance", "NoGraph"} = {}
    /\ IF bIsReconstructingNode
       THEN UNCHANGED <<Pins, InputPins, OutputPins, pin, peer, NodeInstance, Context,
                        bIsReconstructingNode, bNeedsFullReconstruction, pc, last>>
       ELSE \E Managed \in ManagedPinsChanges(Editor) :
                ReconstructNode(Graph, NodeInstance,
                                NeedsFullAfterExternalChange(bNeedsFullReconstruction),
                                Managed, Editor, "OnExternalChange", pc)
    /\ UNCHANGED <<NodeClass, hierarchy, compared, OrphanCfg, bIsDestroyingNode>>

OnExternalChange == \E Editor \in EditorStates : OnExternalChangeUnder(Editor)

PostPasteNode ==
    /\ pc = "idle"
    /\ bNeedsFullReconstruction' = TRUE
    /\ last' = NoCall
    /\ UNCHANGED <<Pins, InputPins, OutputPins, pin, peer, NodeInstance, Context,
                   NodeClass, hierarchy, compared, OrphanCfg, bIsReconstructingNode, bIsDestroyingNode,
                   pc>>

ReconstructNodeReturn_KeepsFlag ==
    /\ pc = "OnReconstructNodeCompleted"
    /\ pc' = "idle"
    /\ last' = NoCall
    /\ UNCHANGED <<Pins, InputPins, OutputPins, pin, peer, NodeInstance, Context,
                   NodeClass, hierarchy, compared, OrphanCfg, bIsReconstructingNode,
                   bIsDestroyingNode, bNeedsFullReconstruction>>

\* the completion delegate returns: line 350
ReconstructNodeReturn ==
    /\ pc = "OnReconstructNodeCompleted"
    /\ bIsReconstructingNode' = FALSE
    /\ pc' = "idle"
    /\ last' = NoCall
    /\ UNCHANGED <<Pins, InputPins, OutputPins, pin, peer, NodeInstance, Context,
                   NodeClass, hierarchy, compared, OrphanCfg, bIsDestroyingNode, bNeedsFullReconstruction>>

\* ------------------------------------------------------- user pins
MaxInstancePins == 256
NumericNames == {ToString(i) : i \in 0 .. MaxDescs}
FromInt(i) == ToString(i)

\* UFlowNode::CountNumberedInputs / CountNumberedOutputs (uint8)
RECURSIVE CountNumbered(_)
CountNumbered(Descs) ==
    IF Descs = <<>> THEN 0
    ELSE ((IF Head(Descs).PinName \in NumericNames THEN 1 ELSE 0)
          + CountNumbered(Tail(Descs))) % 256

CanUserAddInput ==
    /\ IsFlowNode
    /\ NodeClass.bCanUserAddInput /\ Num(InputPins) < MaxInstancePins
CanUserAddOutput ==
    /\ IsFlowNode
    /\ NodeClass.bCanUserAddOutput /\ Num(OutputPins) < MaxInstancePins

\* AddInstancePin: the new graph and the new stored descriptors
AddInstancePin(G, NI, Direction, NumberedPinsAmount) ==
    LET PinName == Exec(FromInt(NumberedPinsAmount))
    IN IF Direction = EGPD_Input
       THEN [NI |-> [NI EXCEPT !.InputPins =
                         IF IsValidIndex(NI.InputPins, NumberedPinsAmount)
                         THEN InsertAt(NI.InputPins, PinName, NumberedPinsAmount)
                         ELSE Append(NI.InputPins, PinName)],
             G |-> Canon(CreateInputPin(G, PinName, NumberedPinsAmount))]
       ELSE [NI |-> [NI EXCEPT !.OutputPins =
                         IF IsValidIndex(NI.OutputPins, NumberedPinsAmount)
                         THEN InsertAt(NI.OutputPins, PinName, NumberedPinsAmount)
                         ELSE Append(NI.OutputPins, PinName)],
             G |-> Canon(CreateOutputPin(G, PinName,
                                         Num(NI.InputPins) + NumberedPinsAmount))]

AddUserPin(Direction, NumberedPinsAmount) ==
    LET Added(A) ==
            /\ Pins' = A.G.Pins /\ InputPins' = A.G.InputPins
            /\ OutputPins' = A.G.OutputPins
            /\ pin' = A.G.pin /\ peer' = A.G.peer
            /\ NodeInstance' = A.NI
    IN /\ Added(AddInstancePin(Graph, NodeInstance, Direction, NumberedPinsAmount))
       /\ last' = NoCall
       /\ UNCHANGED <<Context, NodeClass, hierarchy, compared, OrphanCfg, bIsReconstructingNode,
                      bIsDestroyingNode, bNeedsFullReconstruction, pc>>

AddUserInput ==
    /\ pc = "idle"
    /\ CanUserAddInput
    /\ Num(InputPins) < Num(NodeClass.InputPins) + MaxUserPins
    /\ AddUserPin(EGPD_Input, CountNumbered(NodeInstance.InputPins))

AddUserOutput ==
    /\ pc = "idle"
    /\ CanUserAddOutput
    /\ Num(OutputPins) < Num(NodeClass.OutputPins) + MaxUserPins
    /\ AddUserPin(EGPD_Output, CountNumbered(NodeInstance.OutputPins))

\* the same handlers on a node that shows orphaned pins: the stored descriptors
\* and the view stay within MaxUserPins of the class defaults and of each other
HasOrphanedPin(Array) == \E i \in 1 .. Len(Array) : pin[Array[i]].bOrphanedPin

AddUserInputBesideOrphan ==
    /\ pc = "idle"
    /\ CanUserAddInput
    /\ HasOrphanedPin(Pins)
    /\ Num(NodeInstance.InputPins) < Num(NodeClass.InputPins) + MaxUserPins
    /\ Num(InputPins) <= Num(NodeInstance.InputPins) + MaxUserPins
    /\ AddUserPin(EGPD_Input, CountNumbered(NodeInstance.InputPins))

AddUserOutputBesideOrphan ==
    /\ pc = "idle"
    /\ CanUserAddOutput
    /\ HasOrphanedPin(Pins)
    /\ Num(NodeInstance.OutputPins) < Num(NodeClass.OutputPins) + MaxUserPins
    /\ Num(OutputPins) <= Num(NodeInstance.OutputPins) + MaxUserPins
    /\ AddUserPin(EGPD_Output, CountNumbered(NodeInstance.OutputPins))

\* ------------------------------------------------------- removing pins
\* TArray::Remove on the master sequence after UEdGraphPin::MarkAsGarbage
\* (lines 903-904, 1007-1008, 1018-1019)
RemovePin_KeepsLinks(G, p) == [G EXCEPT !.Pins = RemoveAll(G.Pins, p)]

RemovePin(G, p) == [DestroyPin(G, p) EXCEPT !.Pins = RemoveAll(G.Pins, p)]

\* the handlers of the pin menu run on a node with an instance, in a graph
MenuEditorStates == {Editor \in EditorStates : Editor \cap {"NoInstance", "NoGraph"} = {}}

\* UFlowGraphNode::RemoveOrphanedPin on the orphaned pin p
RemoveOrphanedPinUnder(p, Editor) ==
    /\ pc = "idle"
    /\ p \in Range(Pins) /\ pin[p].bOrphanedPin
    /\ \E Managed \in ManagedPinsChanges(Editor) :
           ReconstructNode(Canon(RemovePin(Graph, p)), NodeInstance,
                           bNeedsFullReconstruction, Managed, Editor,
                           "RemoveOrphanedPin", "idle")
    /\ UNCHANGED <<NodeClass, hierarchy, compared, OrphanCfg, bIsDestroyingNode>>

RemoveOrphanedPin(p) == \E Editor \in MenuEditorStates : RemoveOrphanedPinUnder(p, Editor)

\* UFlowNode::RemoveUserInput / RemoveUserOutput: the stored descriptor of that
\* name goes
RECURSIVE RemoveUserPin(_, _)
RemoveUserPin(Descs, PinName) ==
    IF Descs = <<>> THEN <<>>
    ELSE IF Head(Descs).PinName = PinName THEN Tail(Descs)
    ELSE <<Head(Descs)>> \o RemoveUserPin(Tail(Descs), PinName)

CanUserRemoveInput(p) ==
    IsFlowNode /\ pin[p].PinName \notin {NodeClass.InputPins[i].PinName :
                                             i \in 1 .. Len(NodeClass.InputPins)}
CanUserRemoveOutput(p) ==
    IsFlowNode /\ pin[p].PinName \notin {NodeClass.OutputPins[i].PinName :
                                             i \in 1 .. Len(NodeClass.OutputPins)}

\* lines 1000-1021 of RemoveInstancePin: the graph and the stored descriptors
\* it hands to ReconstructNode
RemoveInstancePinBody(G, NI, p) ==
    IF G.pin[p].Direction = EGPD_Input
    THEN IF p \in Range(G.InputPins)
         THEN [G |-> RemovePin([G EXCEPT !.InputPins = RemoveAll(G.InputPins, p)], p),
               NI |-> [NI EXCEPT !.InputPins = RemoveUserPin(@, G.pin[p].PinName)]]
         ELSE [G |-> G, NI |-> NI]
    ELSE IF p \in Range(G.OutputPins)
         THEN [G |-> RemovePin([G EXCEPT !.OutputPins = RemoveAll(G.OutputPins, p)], p),
               NI |-> [NI EXCEPT !.OutputPins = RemoveUserPin(@, G.pin[p].PinName)]]
         ELSE [G |-> G, NI |-> NI]

\* UFlowGraphNode::RemoveInstancePin on the pin p, which the pin menu offers
\* when CanUserRemoveInput / CanUserRemoveOutput (lines 474-481)
RemoveInstancePinUnder(p, Editor) ==
    LET Removed(B) ==
            \E Managed \in ManagedPinsChanges(Editor) :
                ReconstructNode(Canon(B.G), B.NI, bNeedsFullReconstruction,
                                Managed, Editor, "RemoveInstancePin", "idle")
    IN /\ pc = "idle"
       /\ p \in Range(Pins)
       /\ IF pin[p].Direction = EGPD_Input THEN CanUserRemoveInput(p)
                                           ELSE CanUserRemoveOutput(p)
       /\ Removed(RemoveInstancePinBody(Graph, NodeInstance, p))
       /\ UNCHANGED <<NodeClass, hierarchy, compared, OrphanCfg, bIsDestroyingNode>>

RemoveInstancePin(p) == \E Editor \in MenuEditorStates : RemoveInstancePinUnder(p, Editor)

\* ------------------------------------------------------- load
\* UFlowGraphNode::RebuildPinArraysOnLoad
RECURSIVE RebuildPinArraysOnLoad(_, _)
RebuildPinArraysOnLoad(G, Array) ==
    IF Array = <<>> THEN G
    ELSE RebuildPinArraysOnLoad(
             IF G.pin[Head(Array)].Direction = EGPD_Input
             THEN [G EXCEPT !.InputPins = Append(@, Head(Array))]
             ELSE [G EXCEPT !.OutputPins = Append(@, Head(Array))],
             Tail(Array))

\* the views of a node just deserialized: they are derived, not stored
LoadedGraph(G) == [G EXCEPT !.InputPins = <<>>, !.OutputPins = <<>>]

\* UFlowGraphNode::PostLoad on the node as it was saved when idle: the master
\* sequence, the pins and their wires and the instance are stored, the flags
\* are transient
PostLoad ==
    /\ pc = "idle"
    /\ ~bNeedsFullReconstruction
    /\ \E G \in {Canon(RebuildPinArraysOnLoad(LoadedGraph(Graph), Pins))} :
           /\ InputPins' = G.InputPins /\ OutputPins' = G.OutputPins
           /\ Pins' = G.Pins /\ pin' = G.pin /\ peer' = G.peer
    /\ last' = NoCall
    /\ UNCHANGED <<NodeInstance, Context, NodeClass, hierarchy, compared, OrphanCfg, bIsReconstructingNode,
                   bIsDestroyingNode, bNeedsFullReconstruction, pc>>

\* ------------------------------------------------------- DestroyNode
\* line 1510; this node has no parent, so line 1520 follows
DestroyNodeBegin ==
    /\ pc = "idle"
    /\ bIsDestroyingNode' = TRUE
    /\ pc' = "DestroyNode"
    /\ last' = NoCall
    /\ UNCHANGED <<Pins, InputPins, OutputPins, pin, peer, NodeInstance, Context,
                   NodeClass, hierarchy, compared, OrphanCfg, bIsReconstructingNode,
                   bNeedsFullReconstruction>>

\* RebuildRuntimeAddOnsFromEditorSubNodes as called at line 1520, for a node
\* without sub-nodes: its lines 1331-1334, under the editor conditions Editor
DestroyNodeRebuildAddOnsUnder(Editor) ==
    /\ pc = "DestroyNode"
    /\ IF "NoInstance" \notin Editor /\ IsFlowNode
       THEN \E Managed \in ManagedPinsChanges(Editor) :
                ReconstructNode(Graph, NodeInstance, bNeedsFullReconstruction,
                                Managed, Editor, "DestroyNode",
                                "DestroyNodeSuper")
       ELSE /\ pc' = "DestroyNodeSuper"
            /\ UNCHANGED <<Pins, InputPins, OutputPins, pin, peer, NodeInstance, Context,
                           bIsReconstructingNode, bNeedsFullReconstruction,
                           last>>
    /\ UNCHANGED <<NodeClass, hierarchy, compared, OrphanCfg, bIsDestroyingNode>>

DestroyNodeRebuildAddOns ==
    \E Editor \in EditorStates : DestroyNodeRebuildAddOnsUnder(Editor)

RECURSIVE BreakAllNodeLinks(_, _)
BreakAllNodeLinks(G, Array) ==
    IF Array = <<>> THEN G
    ELSE BreakAllNodeLinks(BreakAllPinLinks(G, Head(Array)), Tail(Array))

\* UEdGraphNode::DestroyNode (line 1523: the graph removes the node, which breaks
\* the links of all its pins) and line 1525
DestroyNodeEnd ==
    /\ pc = "DestroyNodeSuper"
    /\ \E G \in {BreakAllNodeLinks(Graph, Pins)} : pin' = G.pin /\ peer' = G.peer
    /\ bIsDestroyingNode' = FALSE
    /\ pc' = "destroyed"
    /\ last' = NoCall
    /\ UNCHANGED <<Pins, InputPins, OutputPins, NodeInstance, Context, NodeClass, hierarchy, compared,
                   OrphanCfg, bIsReconstructingNode, bNeedsFullReconstruction>>

\* ------------------------------------------------------- environment
NumLinks == Cardinality({pq \in (DOMAIN pin) \X Peers : pq[2] \in pin[pq[1]].LinkedTo})

\* the user draws a wire (UEdGraphPin::MakeLinkTo)
MakeLinkTo(p, q) ==
    /\ pc = "idle"
    /\ p \in Range(Pins)
    /\ ~pin[p].bNotConnectable
    /\ q \notin pin[p].LinkedTo
    /\ NumLinks < MaxLinks
    /\ pin' = [pin EXCEPT ![p].LinkedTo = @ \cup {q}]
    /\ peer' = [peer EXCEPT ![q] = @ \cup {p}]
    /\ last' = NoCall
    /\ UNCHANGED <<Pins, InputPins, OutputPins, NodeInstance, Context, NodeClass, hierarchy, compared,
                   OrphanCfg, bIsReconstructingNode, bIsDestroyingNode,
                   bNeedsFullReconstruction, pc>>

\* the user removes a wire (UEdGraphPin::BreakLinkTo)
BreakLinkTo(p, q) ==
    /\ pc = "idle"
    /\ p \in Range(Pins)
    /\ q \in pin[p].LinkedTo
    /\ pin' = [pin EXCEPT ![p].LinkedTo = @ \ {q}]
    /\ peer' = [peer EXCEPT ![q] = @ \ {p}]
    /\ last' = NoCall
    /\ UNCHANGED <<Pins, InputPins, OutputPins, NodeInstance, Context, NodeClass, hierarchy, compared,
                   OrphanCfg, bIsReconstructingNode, bIsDestroyingNode,
                   bNeedsFullReconstruction, pc>>

\* the pins whose bHidden or bSavePinIfOrphaned is off its default
Flagged == {p \in DOMAIN pin : pin[p].bHidden \/ ~pin[p].bSavePinIfOrphaned}

\* the pins the class defaults do not declare: context pins and user pins
IsExtraPin(p) ==
    LET Defaults == IF pin[p].Direction = EGPD_Input THEN NodeClass.InputPins
                    ELSE NodeClass.OutputPins
    IN \A i \in 1 .. Len(Defaults) : Defaults[i].PinName # pin[p].PinName

\* node code hides one of its extra pins, a wired one
HidePin(p) ==
    /\ pc = "idle"
    /\ p \in Range(Pins)
    /\ IsExtraPin(p)
    /\ pin[p].LinkedTo # {}
    /\ Flagged = {}
    /\ pin' = [pin EXCEPT ![p].bHidden = TRUE]
    /\ last' = NoCall
    /\ UNCHANGED <<Pins, InputPins, OutputPins, peer, NodeInstance, Context, NodeClass, hierarchy, compared,
                   OrphanCfg, bIsReconstructingNode, bIsDestroyingNode,
                   bNeedsFullReconstruction, pc>>

\* node code clears bSavePinIfOrphaned of one of its extra pins, a wired one
DontSavePinIfOrphaned(p) ==
    /\ pc = "idle"
    /\ p \in Range(Pins)
    /\ IsExtraPin(p)
    /\ pin[p].LinkedTo # {}
    /\ Flagged = {}
    /\ pin' = [pin EXCEPT ![p].bSavePinIfOrphaned = FALSE]
    /\ last' = NoCall
    /\ UNCHANGED <<Pins, InputPins, OutputPins, peer, NodeInstance, Context, NodeClass, hierarchy, compared,
                   OrphanCfg, bIsReconstructingNode, bIsDestroyingNode,
                   bNeedsFullReconstruction, pc>>

\* the data the context pins are computed from changes
SetContextPins(c) ==
    /\ pc = "idle"
    /\ IsFlowNode /\ SupportsContextPins
    /\ c # Context
    /\ Context' = c
    /\ last' = NoCall
    /\ UNCHANGED <<Pins, InputPins, OutputPins, pin, peer, NodeInstance, NodeClass, hierarchy, compared,
                   OrphanCfg, bIsReconstructingNode, bIsDestroyingNode,
                   bNeedsFullReconstruction, pc>>

\* node code reorders the stored input descriptors of the instance
RECURSIVE Reverse(_)
Reverse(s) == IF s = <<>> THEN <<>> ELSE Append(Reverse(Tail(s)), Head(s))

ReorderNodePins ==
    /\ pc = "idle"
    /\ IsFlowNode /\ NodeClass.bReordersPins
    /\ Reverse(NodeInstance.InputPins) # NodeInstance.InputPins
    /\ NodeInstance' = [NodeInstance EXCEPT !.InputPins = Reverse(@)]
    /\ last' = NoCall
    /\ UNCHANGED <<Pins, InputPins, OutputPins, pin, peer, Context, NodeClass, hierarchy, compared,
                   OrphanCfg, bIsReconstructingNode, bIsDestroyingNode,
                   bNeedsFullReconstruction, pc>>

\* ------------------------------------------------------- specification
Next ==
    \/ OnGraphRefresh
    \/ OnExternalChange
    \/ PostPasteNode
    \/ ReconstructNodeReturn
    \/ AddUserInput
    \/ AddUserOutput
    \/ \E p \in PinIds : RemoveOrphanedPin(p)
    \/ \E p \in PinIds : RemoveInstancePin(p)
    \/ PostLoad
    \/ DestroyNodeBegin
    \/ DestroyNodeRebuildAddOns
    \/ DestroyNodeEnd
    \/ \E p \in PinIds, q \in Peers : MakeLinkTo(p, q)
    \/ \E p \in PinIds, q \in Peers : BreakLinkTo(p, q)
    \/ \E p \in PinIds : HidePin(p)
    \/ \E p \in PinIds : DontSavePinIfOrphaned(p)
    \/ \E c \in ContextChoices : SetContextPins(c)
    \/ ReorderNodePins

Spec == Init /\ [][Next]_vars

\* the node with user pins added beside orphaned ones as well
OrphanNext ==
    \/ Next
    \/ AddUserInputBesideOrphan
    \/ AddUserOutputBesideOrphan

OrphanSpec == Init /\ [][OrphanNext]_vars

\* ------------------------------------------------------- hierarchy handlers
\* the hierarchy after a handler, called when no question is being answered,
\* has left it as T
HierarchyBecomes(T) ==
    /\ ~bEditorStopped
    /\ ~accept.bAnswered
    /\ ParentNode' = T.ParentNode
    /\ bIsSubNode' = T.bIsSubNode
    /\ SubNodes' = T.SubNodes
    /\ NodeInstances' = T.NodeInstances
    /\ AddOns' = T.AddOns
    /\ Garbage' = T.Garbage
    /\ Rebuilds' = T.Rebuilds
    /\ accept' = NoAnswer
    /\ UNCHANGED <<node, compared, bEditorStopped>>

\* the handler in progress does not return: the editor process ends
EditorStops ==
    /\ ~bEditorStopped
    /\ ~accept.bAnswered
    /\ bEditorStopped' = TRUE
    /\ UNCHANGED <<node, compared, ParentNode, bIsSubNode, SubNodes, NodeInstances, AddOns, Garbage,
                   Rebuilds, accept>>

\* the editor asks n whether it accepts OtherSubNode; n has an instance to ask
\* (line 1899) and the loop of IsAncestorNode ends
AskCanAcceptSubNodeAsChild(n, OtherSubNode, AcceptResult) ==
    LET Answered(A) ==
            accept' = [bAnswered |-> TRUE, bResult |-> A.bResult, bChecked |-> A.bChecked]
    IN /\ ~bEditorStopped
       /\ ~accept.bAnswered
       /\ IsValidNode(Hierarchy, n) /\ IsValidNode(Hierarchy, OtherSubNode)
       /\ NodeInstances[n] # NULL
       /\ IsAncestorLoopEnds(Hierarchy, ParentNode[n], OtherSubNode, Cardinality(Nodes))
       /\ Answered(CanAcceptSubNodeAsChild(Hierarchy, n, OtherSubNode, AcceptResult))
       /\ UNCHANGED <<node, compared, ParentNode, bIsSubNode, SubNodes, NodeInstances, AddOns,
                      Garbage, Rebuilds, bEditorStopped>>

\* the editor has read the answer
CanAcceptSubNodeAsChildReturn ==
    /\ accept.bAnswered
    /\ accept' = NoAnswer
    /\ UNCHANGED <<node, compared, ParentNode, bIsSubNode, SubNodes, NodeInstances, AddOns,
                   Garbage, Rebuilds, bEditorStopped>>

\* the entries of all the SubNodes arrays
RECURSIVE NumSubNodesOf(_, _)
NumSubNodesOf(T, Array) ==
    IF Array = <<>> THEN 0 ELSE Num(T.SubNodes[Head(Array)]) + NumSubNodesOf(T, Tail(Array))

NumSubNodes == NumSubNodesOf(Hierarchy, NodeOrder)

\* lines 1442-1452 of AddSubNode on n
AttachSubNode(T, n, SubNode) ==
    [SetParentNodeForSubNode(T, SubNode, n) EXCEPT !.SubNodes[n] = Append(@, SubNode)]

\* UFlowGraphNode::AddSubNode on n, which the editor calls when n has just
\* accepted SubNode: the policy of its instance answered TentativeAccept; the
\* SubNodes arrays hold fewer than MaxEntries entries
AddSubNodeWithin(n, SubNode, MaxEntries) ==
    LET Added(T) == UpdateAssetReturns(T) /\ HierarchyBecomes(UpdateAsset(T))
    IN /\ IsValidNode(Hierarchy, n) /\ IsValidNode(Hierarchy, SubNode)
       /\ NodeInstances[n] # NULL
       /\ IsAncestorLoopEnds(Hierarchy, ParentNode[n], SubNode, Cardinality(Nodes))
       /\ CanAcceptSubNodeAsChild(Hierarchy, n, SubNode, TentativeAccept).bResult
       /\ NumSubNodes < MaxEntries
       /\ Added(AttachSubNode(Hierarchy, n, SubNode))

AddSubNode(n, SubNode) == AddSubNodeWithin(n, SubNode, MaxSubNodes)

\* UFlowGraphNode::RemoveSubNode on n: the hierarchy it leaves
RemoveSubNodeFrom(T, n, SubNode) ==
    RebuildRuntimeAddOnsFromEditorSubNodes(
        [T EXCEPT !.SubNodes[n] = RemoveSingle(@, SubNode)], n)

RemoveSubNode(n, SubNode) ==
    /\ IsValidNode(Hierarchy, n)
    /\ SubNode \in Range(SubNodes[n])
    /\ RebuildReturns(Hierarchy, n)
    /\ HierarchyBecomes(RemoveSubNodeFrom(Hierarchy, n, SubNode))

\* UFlowGraphNode::RemoveAllSubNodes on n
RemoveAllSubNodes(n) ==
    /\ IsValidNode(Hierarchy, n)
    /\ SubNodes[n] # <<>>
    /\ HierarchyBecomes(RebuildRuntimeAddOnsFromEditorSubNodes(
                            [Hierarchy EXCEPT !.SubNodes[n] = <<>>], n))

\* UFlowGraphNode::InsertSubNodeAt on n, which the editor calls to place a
\* sub-node of n among the sub-nodes of n.  TArray::Insert at an index beyond
\* Num() fails its range check where the build has one and moves a negative
\* number of elements where it has none: either way the editor process ends.
InsertSubNodeAt(n, SubNode, DropIndex) ==
    LET Inserted(T) == RebuildReturns(T, n)
                       /\ HierarchyBecomes(RebuildRuntimeAddOnsFromEditorSubNodes(T, n))
    IN /\ IsValidNode(Hierarchy, n) /\ IsValidNode(Hierarchy, SubNode)
       /\ ParentNode[SubNode] = n
       /\ NumSubNodes < MaxSubNodes
       /\ IF DropIndex > -1
          THEN IF DropIndex <= Num(SubNodes[n])
               THEN Inserted([Hierarchy EXCEPT !.SubNodes[n] = InsertAt(@, SubNode, DropIndex)])
               ELSE EditorStops
          ELSE Inserted([Hierarchy EXCEPT !.SubNodes[n] = Append(@, SubNode)])

\* the editor sets the parent of n: it clears it once the parent no longer
\* lists n, or sets it to a node that lists n
SetParentNode(n, InParentNode) ==
    /\ IsValidNode(Hierarchy, n)
    /\ InParentNode # ParentNode[n]
    /\ IF InParentNode = NULL THEN n \notin Range(SubNodes[ParentNode[n]])
       ELSE n \in Range(SubNodes[InParentNode])
    /\ HierarchyBecomes(SetParentNodeForSubNode(Hierarchy, n, InParentNode))

\* UFlowGraphNode::PostEditUndo on n
PostEditUndo(n) ==
    LET Undone(T, Top) == RebuildReturns(T, Top)
                          /\ HierarchyBecomes(RebuildRuntimeAddOnsFromEditorSubNodes(T, Top))
    IN /\ IsValidNode(Hierarchy, n)
       /\ IF ParentNode[n] # NULL
          THEN /\ IF n \in Range(SubNodes[ParentNode[n]]) THEN TRUE
                  ELSE NumSubNodes < MaxSubNodes
               /\ Undone([Hierarchy EXCEPT !.SubNodes[ParentNode[n]] = AddUnique(@, n)],
                         ParentNode[n])
          ELSE Undone(Hierarchy, n)

\* UFlowGraphNode::DestroyNode on n: lines 1512-1523
DestroyNode(n) ==
    LET Destroyed(T) == HierarchyBecomes([T EXCEPT !.Garbage = @ \cup {n}])
        Removed(T) == RebuildReturns(T, ParentNode[n])
                      /\ Destroyed(RebuildRuntimeAddOnsFromEditorSubNodes(T, ParentNode[n]))
    IN /\ IsValidNode(Hierarchy, n)
       /\ RebuildReturns(Hierarchy, IF ParentNode[n] # NULL THEN ParentNode[n] ELSE n)
       /\ IF ParentNode[n] # NULL
          THEN Removed(RemoveSubNodeFrom(Hierarchy, ParentNode[n], n))
          ELSE Destroyed(RebuildRuntimeAddOnsFromEditorSubNodes(Hierarchy, n))

\* the indices InsertSubNodeAt is called with: negative ones (INDEX_NONE when the
\* editor finds no drop position), positions of the array, and indices beyond it
DropIndexes == -2 .. MaxSubNodes

\* the instances the graph nodes come with
InstanceChoices ==
    {[N1 |-> "FlowNode", N2 |-> "AddOn", N3 |-> "AddOn"],
     [N1 |-> "AddOn", N2 |-> "GarbageAddOn", N3 |-> NULL]}

HierarchyInit ==
    /\ PlacedNode(<<AddOnClass, OrphansSaved>>)
    /\ \E Instances \in InstanceChoices : PlacedNodes(Instances)
    /\ NothingCompared

HierarchyNext ==
    \/ \E n, x \in Nodes, r \in EFlowAddOnAcceptResult : AskCanAcceptSubNodeAsChild(n, x, r)
    \/ CanAcceptSubNodeAsChildReturn
    \/ \E n, x \in Nodes : AddSubNode(n, x)
    \/ \E n, x \in Nodes : RemoveSubNode(n, x)
    \/ \E n \in Nodes : RemoveAllSubNodes(n)
    \/ \E n, x \in Nodes, i \in DropIndexes : InsertSubNodeAt(n, x, i)
    \/ \E n \in Nodes, p \in Nodes \cup {NULL} : SetParentNode(n, p)
    \/ \E n \in Nodes : PostEditUndo(n)
    \/ \E n \in Nodes : DestroyNode(n)

HierarchySpec == HierarchyInit /\ [][HierarchyNext]_vars

\* the hierarchy when the editor only adds sub-nodes and destroys nodes, with
\* room for one more entry
DeepNext ==
    \/ \E n, x \in Nodes : AddSubNodeWithin(n, x, MaxDeepSubNodes)
    \/ \E n \in Nodes : DestroyNode(n)

DeepSpec == HierarchyInit /\ [][DeepNext]_vars

\* ------------------------------------------------------- CheckPinsMatch alone
\* the descriptors compared and the arrays of them a caller can pass
Descriptors == {Exec("A"), Exec("B"), FlowPin("B", "Bool")}
DescriptorArrays == UNION {[1 .. k -> Descriptors] : k \in 0 .. MaxCompared}

\* a caller calls CheckPinsMatch(LeftArg, RightArg)
CheckPinsMatchCall ==
    /\ match.Calls = 0
    /\ match' = [match EXCEPT !.Calls = 1, !.bResult = CheckPinsMatch(LeftArg, RightArg)]
    /\ UNCHANGED <<node, hierarchy, LeftArg, RightArg>>

\* it then calls CheckPinsMatch(RightArg, LeftArg)
CheckPinsMatchSwappedCall ==
    /\ match.Calls = 1
    /\ match' = [match EXCEPT !.Calls = 2,
                              !.bSwappedResult = CheckPinsMatch(RightArg, LeftArg)]
    /\ UNCHANGED <<node, hierarchy, LeftArg, RightArg>>

MatchInit ==
    /\ PlacedNode(<<AddOnClass, OrphansSaved>>)
    /\ PlacedNodes([n \in Nodes |-> "FlowNode"])
    /\ LeftArg \in DescriptorArrays /\ RightArg \in DescriptorArrays
    /\ match = NoComparison

MatchNext == CheckPinsMatchCall \/ CheckPinsMatchSwappedCall

MatchSpec == MatchInit /\ [][MatchNext]_vars

\* ------------------------------------------------------- properties
\* a call of ReconstructNode has passed the guard, has run, and is at its
\* completion delegate; CompletedRebuild: it has taken the branch of lines 318-343
Completed == pc = "OnReconstructNodeCompleted" /\ last.Call # "none"
CompletedRebuild == Completed /\ last.bRebuilt

\* the step is a call of ReconstructNode that passes the guard and runs
UnguardedCall == pc = "idle" /\ pc' = "OnReconstructNodeCompleted"

\* the handlers that take a pin away before they call ReconstructNode
RemovalHandlers == {"RemoveOrphanedPin", "RemoveInstancePin"}

\* the step is a call of ReconstructNode itself (not of a handler that changes
\* state before calling it) under the editor conditions Editor
ReconstructCalled(Editor) ==
    \/ OnGraphRefreshUnder(Editor)
    \/ "NoInstance" \notin Editor /\ IsFlowNode /\ DestroyNodeRebuildAddOnsUnder(Editor)

\* the guard as the specification lists it
GuardActive(Editor) ==
    \/ "Transacting" \in Editor
    \/ bIsReconstructingNode
    \/ bIsDestroyingNode
    \/ "NoInstance" \in Editor
    \/ "NoGraph" \in Editor
    \/ "Saving" \in Editor
    \/ "Locked" \in Editor

\* the step enters the completion delegate
FiresCompleted ==
    ~bIsReconstructingNode /\ bIsReconstructingNode' /\ pc' = "OnReconstructNodeCompleted"

\* the master sequence of G as names and orphaned flags, in order
PinSequence(G) ==
    [i \in 1 .. Len(G.Pins) |-> [PinName |-> G.pin[G.Pins[i]].PinName,
                                 bOrphanedPin |-> G.pin[G.Pins[i]].bOrphanedPin]]

\* C1: when a call of ReconstructNode has run, a second call made right after it
\* returns, under the same editor conditions and with no change of the managed
\* pins, of the stored descriptors or of the wires in between, leaves a master
\* sequence with the same names, order and orphaned flags.
C1_Idempotence ==
    Completed =>
        LET Second == ReconstructBody(Graph, NodeInstance, bNeedsFullReconstruction,
                                      NoManagedChange, last.Editor)
        IN PinSequence(Second.G) = PinSequence(Graph)

C1_Witness ==
    /\ CompletedRebuild
    /\ \E p \in Range(Pins) : pin[p].bOrphanedPin
    /\ \E p \in Range(Pins) : ~pin[p].bOrphanedPin /\ pin[p].LinkedTo # {}

\* the pins of the sequence P (fields pn) of name n and direction d
PinsNamed(P, pn, n, d) ==
    {i \in 1 .. Len(P) : pn[P[i]].PinName = n /\ pn[P[i]].Direction = d}
OldPinsNamed(n, d) ==
    {i \in 1 .. Len(last.OldPins) :
         last.OldPins[i].PinName = n /\ last.OldPins[i].Direction = d}

\* C2: after a full rebuild, when exactly one pin of name n and direction d
\* existed before it and exactly one exists after it, the pin after it is wired
\* to exactly the peers the pin before it was wired to.
C2_ConnectionPreservation ==
    CompletedRebuild =>
        \A i \in 1 .. Len(last.OldPins), j \in 1 .. Len(Pins) :
            LET Old == last.OldPins[i]
                New == pin[Pins[j]]
            IN (/\ New.PinName = Old.PinName /\ New.Direction = Old.Direction
                /\ Cardinality(OldPinsNamed(Old.PinName, Old.Direction)) = 1
                /\ Cardinality(PinsNamed(Pins, pin, Old.PinName, Old.Direction)) = 1)
               => /\ New.LinkedTo = Old.LinkedTo
                  /\ \A q \in Peers : Pins[j] \in peer[q] <=> q \in Old.LinkedTo

\* orphan saving is on for the node
OrphanSavingOn ==
    /\ OrphanCfg.bOrphanPinsEnabled
    /\ ~OrphanCfg.bDisableOrphanPinSaving
    /\ OrphanCfg.OrphanedPinSaveMode = SaveAll

\* the old pin at position i (1-based) of the rebuild now completing was
\* matched to no new pin / meets every condition of orphan retention
Unmatched(i) == \A m \in last.MatchedPins : m[1] # i - 1
MeetsRetention(i) ==
    /\ Unmatched(i)
    /\ OrphanSavingOn
    /\ ~last.OldPins[i].bHidden
    /\ last.OldPins[i].bSavePinIfOrphaned
    /\ last.OldPins[i].LinkedTo # {}

NumValid(Descs) == Cardinality({i \in 1 .. Len(Descs) : IsValidFlowPin(Descs[i])})
NumNewPins ==
    IF IsFlowNode
    THEN NumValid(NodeInstance.InputPins) + NumValid(NodeInstance.OutputPins)
    ELSE 0

\* C4: after a full rebuild, no old pin that fails a retention condition is
\* among the pins kept; the master sequence holds the new pins and the retained
\* pins only; every pin object left is in the master sequence, both views hold
\* pins of the master sequence only, and no peer lists a pin that is not in it.
C4_DiscardOfNonRetainedPins ==
    CompletedRebuild =>
        /\ \A i \in 1 .. Len(last.OldPins) :
               ~MeetsRetention(i) => \A r \in last.Retained : r[1] # i - 1
        /\ Len(Pins) = NumNewPins + Cardinality(last.Retained)
        /\ \A j \in 1 .. Len(Pins) :
               pin[Pins[j]].bOrphanedPin <=> \E r \in last.Retained : r[2] = j - 1
        /\ DOMAIN pin = Range(Pins)
        /\ Range(InputPins) \cup Range(OutputPins) \subseteq Range(Pins)
        /\ \A q \in Peers : peer[q] = {p \in Range(Pins) : q \in pin[p].LinkedTo}

C4_Witness ==
    /\ CompletedRebuild
    /\ \E i \in 1 .. Len(last.OldPins) :
           /\ Unmatched(i) /\ ~MeetsRetention(i)
           /\ last.OldPins[i].LinkedTo # {}
    /\ \E p \in Range(Pins) : pin[p].LinkedTo # {}

\* names and directions: of the valid descriptors of Descs, in order, and of
\* the pins of the master sequence that are not orphaned, in order
ValidDescriptors(Descs, Direction) ==
    LET Valid == SelectSeq(Descs, IsValidFlowPin)
    IN [i \in 1 .. Len(Valid) |-> <<Valid[i].PinName, Direction>>]
IsLivePin(p) == ~pin[p].bOrphanedPin
LivePins ==
    LET Live == SelectSeq(Pins, IsLivePin)
    IN [i \in 1 .. Len(Live) |-> <<pin[Live[i]].PinName, pin[Live[i]].Direction>>]

\* C5: when a call of ReconstructNode on a node whose instance is a Flow node
\* has run, the pins that are not orphaned have, in master order, the names
\* and directions of the valid stored input descriptors followed by the valid
\* stored output descriptors.
C5_Synchronized ==
    (Completed /\ IsFlowNode) =>
        LivePins = ValidDescriptors(NodeInstance.InputPins, EGPD_Input)
                   \o ValidDescriptors(NodeInstance.OutputPins, EGPD_Output)

\* the names of the pins AddInstancePin has added in a direction: the stored
\* descriptors beyond the class defaults of a class whose user can add pins
Names(Descs) == {Descs[i].PinName : i \in 1 .. Len(Descs)}
UserPinNames(Direction) ==
    IF Direction = EGPD_Input
    THEN IF NodeClass.bCanUserAddInput
         THEN Names(NodeInstance.InputPins) \ Names(NodeClass.InputPins) ELSE {}
    ELSE IF NodeClass.bCanUserAddOutput
         THEN Names(NodeInstance.OutputPins) \ Names(NodeClass.OutputPins) ELSE {}
StoredNames(NI, Direction) ==
    IF Direction = EGPD_Input THEN Names(NI.InputPins) ELSE Names(NI.OutputPins)
HasLivePin(P, pn, n, d) == \E i \in PinsNamed(P, pn, n, d) : ~pn[P[i]].bOrphanedPin

\* C6: a call of ReconstructNode that runs keeps every user-added pin: a pin
\* AddInstancePin has added, live before the call, is live after it under the
\* same name and direction, and its descriptor is still stored.
C6_UserPinsSurvive ==
    [][UnguardedCall =>
          \A d \in {EGPD_Input, EGPD_Output} : \A n \in UserPinNames(d) :
              HasLivePin(Pins, pin, n, d) =>
                  /\ HasLivePin(Pins', pin', n, d)
                  /\ n \in StoredNames(NodeInstance', d)]_vars

\* C7: a call of ReconstructNode made while a guard of the specification's list
\* holds changes none of the master sequence, the views, the pins and their
\* wires, the stored descriptors and the three flags.
C7_GuardedNoOp ==
    [][\A Editor \in EditorStates :
           (GuardActive(Editor) /\ ReconstructCalled(Editor)) =>
               UNCHANGED <<Pins, InputPins, OutputPins, pin, peer, NodeInstance,
                           bIsReconstructingNode, bIsDestroyingNode,
                           bNeedsFullReconstruction>>]_vars

C7_Witness ==
    /\ pc = "DestroyNodeSuper"
    /\ last.GuardedCall = "DestroyNode"
    /\ bNeedsFullReconstruction
    /\ \E p \in Range(Pins) : pin[p].LinkedTo # {}

\* C8 as claimed: every call of ReconstructNode fires the completion delegate.
C8_EveryCallFires ==
    [][\A Editor \in EditorStates : ReconstructCalled(Editor) => FiresCompleted]_vars

\* C8: a call of ReconstructNode fires the completion delegate if and only if
\* it passes the guard, whether or not it rebuilds the pins.
C8_UnguardedCallFires ==
    [][\A Editor \in EditorStates :
           ReconstructCalled(Editor) => (FiresCompleted <=> ~GuardActive(Editor))]_vars

C8_Witness ==
    /\ Completed /\ ~last.bRebuilt
    /\ \E p \in Range(Pins) : pin[p].LinkedTo # {}

\* C9: a call of ReconstructNode that runs rebuilds the pins if and only if the
\* flag was set, or the managed pins or the declared pins were updated, or the
\* pins mismatched; a rebuild clears the flag, and without one the master
\* sequence, the views, the pins and the wires are unchanged.
C9_RebuildDecision ==
    [][UnguardedCall =>
          LET bRequired == \/ last'.bFlagWasSet
                           \/ last'.bNodeDataPinsUpdated
                           \/ last'.bNodeExecPinsUpdated
                           \/ last'.bAreGraphPinsMismatched
          IN /\ last'.bRebuilt <=> bRequired
             /\ bRequired => ~bNeedsFullReconstruction'
             /\ (~bRequired /\ last'.Call \notin RemovalHandlers) =>
                    UNCHANGED <<Pins, InputPins, OutputPins, pin, peer>>]_vars

C9_Witness ==
    /\ CompletedRebuild
    /\ last.bNodeDataPinsUpdated
    /\ ~last.bFlagWasSet /\ ~last.bNodeExecPinsUpdated /\ ~last.bAreGraphPinsMismatched
    /\ \E p \in Range(Pins) : pin[p].LinkedTo # {}

\* C10: the flag, once set, is cleared only by a call of ReconstructNode that
\* runs and rebuilds, and a call that runs while it is set rebuilds and clears it.
C10_FlagPersists ==
    [][/\ (bNeedsFullReconstruction /\ ~bNeedsFullReconstruction')
              => (UnguardedCall /\ last'.bRebuilt)
       /\ (bNeedsFullReconstruction /\ UnguardedCall)
              => (last'.bRebuilt /\ ~bNeedsFullReconstruction')]_vars

C10_Witness ==
    /\ CompletedRebuild /\ ~bNeedsFullReconstruction
    /\ last.bFlagWasSet
    /\ ~last.bNodeDataPinsUpdated /\ ~last.bNodeExecPinsUpdated
    /\ ~last.bAreGraphPinsMismatched

\* C11: a notification of external change delivered to a node that is not
\* reconstructing rebuilds the pins and leaves the flag clear before it returns
\* when no guard holds, the return from the completion delegate changing
\* neither; when a guard holds it returns with the pins and wires as they were.
C11_ExternalChangeIsSynchronous ==
    [][/\ \A Editor \in EditorStates :
              (~bIsReconstructingNode /\ OnExternalChangeUnder(Editor)) =>
                  IF GuardActive(Editor)
                  THEN /\ UNCHANGED <<Pins, InputPins, OutputPins, pin, peer, NodeInstance>>
                       /\ pc' = pc
                  ELSE /\ pc' = "OnReconstructNodeCompleted"
                       /\ last'.bRebuilt
                       /\ ~bNeedsFullReconstruction'
       /\ (pc = "OnReconstructNodeCompleted" /\ pc' = "idle") =>
              UNCHANGED <<Pins, InputPins, OutputPins, pin, peer, NodeInstance,
                          bNeedsFullReconstruction>>]_vars

C11_Witness ==
    /\ CompletedRebuild
    /\ last.Call = "OnExternalChange"
    /\ last.bFlagWasSet /\ ~bNeedsFullReconstruction
    /\ ~last.bNodeExecPinsUpdated /\ ~last.bAreGraphPinsMismatched
    /\ \E p \in Range(Pins) : pin[p].bOrphanedPin

\* the locals of the call of ReconstructNode in progress
CallInProgress(l) == [l EXCEPT !.GuardedCall = "none"]

\* C12: while a call of ReconstructNode is in progress, every call of
\* ReconstructNode and every notification of external change returns with the
\* pins, the descriptors, the flags and the locals of the call in progress
\* unchanged, and the call in progress then returns with them unchanged.
C12_ReentrancySafety ==
    [][bIsReconstructingNode =>
          /\ UNCHANGED <<Pins, InputPins, OutputPins, pin, peer, NodeInstance,
                         bIsDestroyingNode, bNeedsFullReconstruction>>
          /\ \/ pc' = pc /\ bIsReconstructingNode' /\ CallInProgress(last') = CallInProgress(last)
             \/ pc' = "idle" /\ ~bIsReconstructingNode']_vars

C12_Witness ==
    /\ CompletedRebuild
    /\ last.GuardedCall = "ReconstructNode"
    /\ \E p \in Range(Pins) : pin[p].LinkedTo # {}

\* ---------------------------------------------------------------- C13
\* the node is between handlers
Stable == pc = "idle"

\* C13: whenever the node is between handlers, the two views have no pin in
\* common, every pin of a view is in the master sequence, and every pin of the
\* master sequence is in exactly one view.
C13_Partition ==
    Stable =>
        /\ Range(InputPins) \cap Range(OutputPins) = {}
        /\ Range(InputPins) \cup Range(OutputPins) \subseteq Range(Pins)
        /\ \A p \in Range(Pins) :
               Cardinality({i \in 1 .. Len(InputPins) : InputPins[i] = p})
               + Cardinality({i \in 1 .. Len(OutputPins) : OutputPins[i] = p}) = 1

\* ---------------------------------------------------------------- C14
\* C14: whenever the node is between handlers, the input view followed by the
\* output view, each in its own order, is the master sequence, orphaned pins
\* included.
C14_Concatenation == Stable => InputPins \o OutputPins = Pins

\* ---------------------------------------------------------------- C15
\* C15: whenever the node is between handlers, no two pins of the master
\* sequence, orphaned or not, have the same name and the same direction.
C15_NameUniqueness ==
    Stable =>
        \A i, j \in 1 .. Len(Pins) :
            (/\ pin[Pins[i]].PinName = pin[Pins[j]].PinName
             /\ pin[Pins[i]].Direction = pin[Pins[j]].Direction) => i = j

\* ---------------------------------------------------------------- C16
\* the nodes reached from the nodes of S by following parent references
RECURSIVE ReachedByParent(_)
ReachedByParent(S) ==
    LET Grown(S1) == IF S1 = S THEN S ELSE ReachedByParent(S1)
    IN Grown(S \cup ({ParentNode[m] : m \in S} \ {NULL}))

\* the ancestors of n: the nodes reached from n by one parent reference or more
Ancestors(n) == IF ParentNode[n] = NULL THEN {} ELSE ReachedByParent({ParentNode[n]})

\* C16: when n is asked whether it accepts a candidate that has an instance and
\* is an ancestor of n, the answer is false and the accept policy of the
\* instance is not consulted, whatever it would answer.
C16_CycleRejection ==
    [][\A n, x \in Nodes, r \in EFlowAddOnAcceptResult :
           (/\ AskCanAcceptSubNodeAsChild(n, x, r)
            /\ NodeInstances[x] # NULL
            /\ x \in Ancestors(n)) => (~accept'.bResult /\ ~accept'.bChecked)]_vars

\* every candidate has an instance, so an answer given without the policy is
\* the rejection of an ancestor; some node has a parent and a grandparent
C16_Witness ==
    /\ accept.bAnswered /\ ~accept.bResult /\ ~accept.bChecked
    /\ \A x \in Nodes : NodeInstances[x] # NULL
    /\ \E n \in Nodes : Cardinality(Ancestors(n)) = 2

\* ---------------------------------------------------------------- C17
Acyclic == \A n \in Nodes : n \notin Ancestors(n)

\* the step is one of AddSubNode (called after acceptance), RemoveSubNode,
\* RemoveAllSubNodes and DestroyNode
AttachOrDetachStep ==
    \E n \in Nodes :
        \/ \E x \in Nodes : AddSubNode(n, x) \/ RemoveSubNode(n, x)
        \/ RemoveAllSubNodes(n)
        \/ DestroyNode(n)

\* C17: AddSubNode called after acceptance, RemoveSubNode, RemoveAllSubNodes and
\* DestroyNode leave no node among its own ancestors when there was none, a
\* node attached to itself included.
C17_AcyclicParentChain == [][(Acyclic /\ AttachOrDetachStep) => Acyclic']_vars

\* ---------------------------------------------------------------- C18
\* C18: a parent reference that is not null is not null after any step.
C18_NoRootPromotion ==
    [][\A n \in Nodes : ParentNode[n] # NULL => ParentNode'[n] # NULL]_vars

\* ---------------------------------------------------------------- C19
\* the step is a handler that ends with RebuildRuntimeAddOnsFromEditorSubNodes on n
EndsWithRebuildOf(n) ==
    \/ \E x \in Nodes : RemoveSubNode(n, x)
    \/ RemoveAllSubNodes(n)
    \/ \E x \in Nodes, i \in DropIndexes : InsertSubNodeAt(n, x, i) /\ ~bEditorStopped'
    \/ \E x \in Nodes : PostEditUndo(x) /\ n = (IF ParentNode[x] # NULL THEN ParentNode[x] ELSE x)

\* the entries of SubNodes[n] that are valid and carry a valid add-on instance,
\* after the step
MirroredEntries(n) ==
    {i \in 1 .. Len(SubNodes'[n]) :
         SubNodes'[n][i] \notin Garbage' /\ NodeInstances'[SubNodes'[n][i]] = "AddOn"}

NoDuplicates(s) == \A i, j \in 1 .. Len(s) : s[i] = s[j] => i = j

FirstEntry(n, a) == CHOOSE i \in MirroredEntries(n) :
                        SubNodes'[n][i] = a /\ \A j \in MirroredEntries(n) :
                                                   SubNodes'[n][j] = a => i <= j

C20_AcceptanceDecision ==
    [][\A n, x \in Nodes, r \in EFlowAddOnAcceptResult :
           AskCanAcceptSubNodeAsChild(n, x, r) =>
               (accept'.bResult <=> (/\ NodeInstances[x] # NULL
                                     /\ x \notin Ancestors(n)
                                     /\ r = TentativeAccept))]_vars

\* an acceptance, in a graph with a candidate without instance and a sub-node
C20_Witness ==
    /\ accept.bAnswered /\ accept.bResult /\ accept.bChecked
    /\ \E x \in Nodes : NodeInstances[x] = NULL
    /\ \E n \in Nodes : Ancestors(n) # {}

\* ---------------------------------------------------------------- C21
\* the mirror of n is the one RebuildRuntimeAddOnsFromEditorSubNodes makes of the
\* sub-node sequence of n, after the step
MirrorRebuilt(n) ==
    NodeInstances'[n] \in {"FlowNode", "AddOn"} =>
        AddOns'[n] = MirrorSubNodes([Hierarchy EXCEPT !.Garbage = Garbage',
                                                      !.NodeInstances = NodeInstances'],
                                    SubNodes'[n], <<>>)

\* C21: InsertSubNodeAt returns with the child at position index of the
\* sub-node sequence when index is a position of it (0 .. length), with the
\* child appended when index is negative or greater than the length, and with
\* the mirror rebuilt in both cases.
C21_InsertSubNodeAt ==
    [][\A n, x \in Nodes, i \in DropIndexes :
           InsertSubNodeAt(n, x, i) =>
               /\ ~bEditorStopped'
               /\ SubNodes'[n] = IF i >= 0 /\ i <= Len(SubNodes[n])
                                 THEN InsertAt(SubNodes[n], x, i)
                                 ELSE Append(SubNodes[n], x)
               /\ MirrorRebuilt(n)]_vars

\* ---------------------------------------------------------------- C22
\* the elements of s other than e, in the order of s
Others(s, e) == SelectSeq(s, LAMBDA y : y # e)

\* the elements that t and s share are in the same relative order in both
SameRelativeOrder(t, s) ==
    \A i, j \in 1 .. Len(t) :
        (i < j /\ t[i] \in Range(s) /\ t[j] \in Range(s) /\ t[i] # t[j]) =>
            \E k, l \in 1 .. Len(s) : k < l /\ s[k] = t[i] /\ s[l] = t[j]

\* C22: after RemoveSubNode(child) on n the child is not in the sub-node
\* sequence of n, its add-on is not in the add-on list of n when the instance of
\* n is valid, and the remaining sub-nodes and add-ons keep their relative order.
C22_Detach ==
    [][\A n, x \in Nodes :
           RemoveSubNode(n, x) =>
               /\ x \notin Range(SubNodes'[n])
               /\ NodeInstances[n] \in {"FlowNode", "AddOn"} => x \notin Range(AddOns'[n])
               /\ SubNodes'[n] = Others(SubNodes[n], x)
               /\ SameRelativeOrder(AddOns'[n], AddOns[n])]_vars

\* ---------------------------------------------------------------- C23
\* the (name, type) descriptors an array holds
DescriptorsOf(Array) == Range(Array)

NoRepeatedDescriptor(Array) == \A i, j \in 1 .. Len(Array) : Array[i] = Array[j] => i = j

\* C23 as claimed: CheckPinsMatch(A, B) is true exactly when A and B hold the
\* same descriptors, and CheckPinsMatch(B, A) returns the same.
C23_SetEquality ==
    /\ match.Calls >= 1 => (match.bResult <=> DescriptorsOf(LeftArg) = DescriptorsOf(RightArg))
    /\ match.Calls = 2 => match.bSwappedResult = match.bResult

\* C23: for arrays A and B in which no descriptor occurs twice,
\* CheckPinsMatch(A, B) is true exactly when A and B hold the same descriptors,
\* and CheckPinsMatch(B, A) returns the same.
C23_SetEqualityWithoutRepeats ==
    (NoRepeatedDescriptor(LeftArg) /\ NoRepeatedDescriptor(RightArg)) =>
        /\ match.Calls >= 1 =>
               (match.bResult <=> DescriptorsOf(LeftArg) = DescriptorsOf(RightArg))
        /\ match.Calls = 2 => match.bSwappedResult = match.bResult

\* both calls made on two different arrays of the same two descriptors
C23_Witness ==
    /\ match.Calls = 2 /\ match.bResult /\ match.bSwappedResult
    /\ Len(LeftArg) = 2 /\ LeftArg # RightArg
    /\ NoRepeatedDescriptor(LeftArg) /\ NoRepeatedDescriptor(RightArg)

\* ---------------------------------------------------------------- C24
\* the pin at index j (0-based) of the master sequence is one the rebuild kept
IsRetained(j) == \E r \in last.Retained : r[2] = j

\* C24: right after a rebuild the master sequence holds, in this order, one new
\* pin that is not orphaned per valid stored input descriptor, in descriptor
\* order, one per valid stored output descriptor, in descriptor order, and
\* then only retained orphaned pins.
C24_RebuiltShape ==
    CompletedRebuild =>
        LET Fresh == ValidDescriptors(NodeInstance.InputPins, EGPD_Input)
                     \o ValidDescriptors(NodeInstance.OutputPins, EGPD_Output)
        IN /\ Len(Pins) >= Len(Fresh)
           /\ \A j \in 1 .. Len(Pins) :
                  IF j <= Len(Fresh)
                  THEN /\ <<pin[Pins[j]].PinName, pin[Pins[j]].Direction>> = Fresh[j]
                       /\ ~pin[Pins[j]].bOrphanedPin
                       /\ ~IsRetained(j - 1)
                  ELSE pin[Pins[j]].bOrphanedPin /\ IsRetained(j - 1)

\* a rebuild that made an input and an output pin and kept an orphaned input
C24_Witness ==
    /\ CompletedRebuild
    /\ \E p \in Range(Pins) : ~pin[p].bOrphanedPin /\ pin[p].Direction = EGPD_Input
    /\ \E p \in Range(Pins) : ~pin[p].bOrphanedPin /\ pin[p].Direction = EGPD_Output
    /\ \E p \in Range(Pins) : pin[p].bOrphanedPin /\ pin[p].Direction = EGPD_Input

\* ---------------------------------------------------------------- C25
\* the step is a call of ReconstructNode that runs, on a node whose instance is
\* a Flow node, made with the stored descriptors as they were before the step
RefreshStep ==
    UnguardedCall /\ IsFlowNode /\ last'.Call # "RemoveInstancePin"

\* the required descriptors: class defaults, then context pins, the invalid removed
RequiredNodeInputPins == CleanInvalidFlowPins(NodeClass.InputPins \o Context'.Inputs)
RequiredNodeOutputPins == CleanInvalidFlowPins(NodeClass.OutputPins \o Context'.Outputs)

\* the step has compared them with the stored ones and replaced, wholesale,
\* the stored array of each direction that did not match
DeclaredPinsRefreshed ==
    LET bInputsMatch == CheckPinsMatch(RequiredNodeInputPins,
                                       CleanInvalidFlowPins(NodeInstance.InputPins))
        bOutputsMatch == CheckPinsMatch(RequiredNodeOutputPins,
                                        CleanInvalidFlowPins(NodeInstance.OutputPins))
    IN /\ last'.bNodeExecPinsUpdated <=> (~bInputsMatch \/ ~bOutputsMatch)
       /\ NodeInstance'.InputPins =
              IF bInputsMatch THEN NodeInstance.InputPins ELSE RequiredNodeInputPins
       /\ NodeInstance'.OutputPins =
              IF bOutputsMatch THEN NodeInstance.OutputPins ELSE RequiredNodeOutputPins

\* the step has left the stored descriptors alone and reported no change
DeclaredPinsSkipped == NodeInstance' = NodeInstance /\ ~last'.bNodeExecPinsUpdated

\* C25 as claimed: the refresh of the declared pins runs in every call that
\* runs, except when the graph is loading, the class opts out of the refresh on
\* load and the flag is not set.
C25_RefreshUnlessLoading ==
    [][RefreshStep =>
          IF /\ "Loading" \in last'.Editor
             /\ ~NodeClass.bCanRefreshContextPinsOnLoad
             /\ ~last'.bFlagWasSet
          THEN DeclaredPinsSkipped
          ELSE DeclaredPinsRefreshed]_vars

\* C25: the refresh of the declared pins runs in every call that runs, except
\* when the flag is not set and either the class does not support context pins
\* or the graph is loading and the class opts out of the refresh on load.
C25_RefreshDecision ==
    [][RefreshStep =>
          IF /\ ~last'.bFlagWasSet
             /\ \/ ~NodeClass.bSupportsContextPins
                \/ "Loading" \in last'.Editor /\ ~NodeClass.bCanRefreshContextPinsOnLoad
          THEN DeclaredPinsSkipped
          ELSE DeclaredPinsRefreshed]_vars

\* a call under the flag has replaced the stored descriptors of a class without
\* context pins, while the graph was loading
C25_Witness ==
    /\ Completed /\ last.bFlagWasSet /\ last.bNodeExecPinsUpdated
    /\ ~NodeClass.bSupportsContextPins
    /\ "Loading" \in last.Editor

\* ---------------------------------------------------------------- C26
\* the pins the call found in the graph: those it replaced if it rebuilt, those
\* still in the master sequence if it did not
FoundPins ==
    IF last'.bRebuilt THEN last'.OldPins
    ELSE [i \in 1 .. Len(Pins') |-> pin'[Pins'[i]]]

\* the live (not orphaned) pins the call found have the names of the valid
\* stored descriptors D, as many of them
LivePinsMatch(D) ==
    LET Live == SelectSeq(FoundPins, LAMBDA p : ~p.bOrphanedPin)
        Valid == SelectSeq(D, LAMBDA d : d.PinName # NAME_None)
    IN /\ Len(Live) = Len(Valid)
       /\ \A n \in 1 .. Len(Valid) : \E g \in 1 .. Len(Live) :
              Live[g].PinName = Valid[n].PinName

\* C26: in every call of ReconstructNode that runs, the flag set or not, the
\* declared pins are refreshed against the context pins as the refresh of the
\* managed data pins left them, and the parity check compares the live pins
\* with the stored descriptors as both refreshes left them.
C26_StepOrder ==
    [][UnguardedCall =>
          /\ (IsFlowNode /\ ShouldRefreshContextPins("Loading" \in last'.Editor,
                                                    last'.bFlagWasSet)) =>
                 /\ CheckPinsMatch(RequiredNodeInputPins,
                                   CleanInvalidFlowPins(NodeInstance'.InputPins))
                 /\ CheckPinsMatch(RequiredNodeOutputPins,
                                   CleanInvalidFlowPins(NodeInstance'.OutputPins))
          /\ IsFlowNode =>
                 (last'.bAreGraphPinsMismatched <=>
                      ~LivePinsMatch(NodeInstance'.InputPins \o NodeInstance'.OutputPins))
          /\ ~IsFlowNode => last'.bAreGraphPinsMismatched]_vars

\* a call made with the flag set has applied a change of the managed pins,
\* replaced stored descriptors and found the live pins not to match them
C26_Witness ==
    /\ Completed /\ last.bFlagWasSet
    /\ last.bNodeDataPinsUpdated /\ last.bNodeExecPinsUpdated
    /\ last.bAreGraphPinsMismatched

\* ---------------------------------------------------------------- C27
\* the number of pins AllocateDefaultPins made in the rebuild now completing
NumAllocated == Len(Pins) - Cardinality(last.Retained)

\* C27: in a rebuild no two old pins are matched to one new pin and no old pin
\* is matched to two new pins, the pins of a matched pair have the same name,
\* and for an old pin matched to none every new pin of its name was matched to
\* an old pin processed before it, that is, to one later in the old sequence.
C27_MatchingOneToOne ==
    CompletedRebuild =>
        /\ \A m1, m2 \in last.MatchedPins : (m1[1] = m2[1]) <=> (m1[2] = m2[2])
        /\ \A m \in last.MatchedPins :
               /\ m[1] \in 0 .. Len(last.OldPins) - 1
               /\ m[2] \in 0 .. NumAllocated - 1
               /\ pin[At(Pins, m[2])].PinName = last.OldPins[m[1] + 1].PinName
        /\ \A i \in 1 .. Len(last.OldPins) :
               Unmatched(i) =>
                   \A n \in 0 .. NumAllocated - 1 :
                       pin[At(Pins, n)].PinName = last.OldPins[i].PinName =>
                           \E m \in last.MatchedPins : m[2] = n /\ m[1] > i - 1

\* a rebuild matched two old pins, and left unmatched an old pin whose name a
\* new pin has
C27_Witness ==
    /\ CompletedRebuild
    /\ Cardinality(last.MatchedPins) >= 2
    /\ \E i \in 1 .. Len(last.OldPins) :
           /\ Unmatched(i)
           /\ \E n \in 0 .. NumAllocated - 1 :
                  pin[At(Pins, n)].PinName = last.OldPins[i].PinName

\* ---------------------------------------------------------------- C28
\* C28: the pins a rebuild retains are in the new master sequence in the order
\* they had in the old one.
C28_RetainedOrder ==
    CompletedRebuild =>
        \A r1, r2 \in last.Retained : r1[1] < r2[1] => r1[2] < r2[2]

\* a rebuild that retained two pins, one that was orphaned already and one
\* that was not
C28_Witness ==
    /\ CompletedRebuild
    /\ \E r1, r2 \in last.Retained :
           /\ r1[1] # r2[1]
           /\ last.OldPins[r1[1] + 1].bOrphanedPin
           /\ ~last.OldPins[r2[1] + 1].bOrphanedPin

\* ---------------------------------------------------------------- C29
\* the step is a call of ReconstructNode or a notification of external change
\* made from inside the completion delegate
CalledFromCompletion ==
    /\ pc = "OnReconstructNodeCompleted"
    /\ OnGraphRefresh \/ OnExternalChange

\* C29: bIsReconstructingNode is false whenever the node is between handlers;
\* it becomes true in the calls of ReconstructNode that pass the guard and in
\* no other step, and no outcome of a refresh step exists while it is false;
\* it is true while the completion delegate runs and becomes false only when
\* the delegate returns; a call of ReconstructNode made from inside the
\* delegate changes neither the pins, the stored descriptors, the context
\* pins nor the flags, and leaves the thread in the delegate.
C29_FlagLifecycle ==
    [][/\ Stable => ~bIsReconstructingNode
       /\ Stable' => ~bIsReconstructingNode'
       /\ (~bIsReconstructingNode /\ bIsReconstructingNode') <=> UnguardedCall
       /\ last'.Call # "none" => bIsReconstructingNode'
       /\ pc' = "OnReconstructNodeCompleted" => bIsReconstructingNode'
       /\ (bIsReconstructingNode /\ ~bIsReconstructingNode') <=>
              (pc = "OnReconstructNodeCompleted" /\ pc' = "idle")
       /\ CalledFromCompletion =>
              /\ pc' = pc
              /\ UNCHANGED <<Pins, InputPins, OutputPins, pin, peer, NodeInstance,
                             Context, bIsReconstructingNode, bIsDestroyingNode,
                             bNeedsFullReconstruction>>]_vars

\* a rebuild has completed with wires on the node, and from inside its
\* completion delegate ReconstructNode was called while the flag of a full
\* reconstruction was set again
C29_Witness ==
    /\ CompletedRebuild
    /\ bIsReconstructingNode
    /\ last.GuardedCall = "ReconstructNode"
    /\ last.bNodeExecPinsUpdated
    /\ \E p \in Range(Pins) : pin[p].bOrphanedPin

\* ---------------------------------------------------------------- C30
\* C30: when DestroyNode returns on a node n that had a parent, n is not in the
\* sub-node sequence of that parent and its add-on is not in the add-on list of
\* the parent's instance.  (Of the pins of n: the ReconstructNode that the
\* rebuild of the mirror calls on n finds bIsDestroyingNode set, the case of C7.)
C30_DestroyNode ==
    [][\A n \in Nodes :
           (DestroyNode(n) /\ ParentNode[n] # NULL) =>
               /\ n \notin Range(SubNodes'[ParentNode[n]])
               /\ n \notin Range(AddOns'[ParentNode[n]])]_vars

\* ---------------------------------------------------------------- C31
\* the step is a handler of the hierarchy that returns
HandlerReturns ==
    /\ ~accept.bAnswered /\ ~accept'.bAnswered
    /\ ~bEditorStopped /\ ~bEditorStopped'

\* the hierarchy as the k-th call of RebuildRuntimeAddOnsFromEditorSubNodes of
\* the handler left it: the handler has edited the sub-node sequences before
\* its first call and destroys no node before its last
WhenReturned(k) ==
    [Hierarchy EXCEPT !.SubNodes = SubNodes', !.AddOns = Rebuilds'[k].AddOns]

\* C31: when RebuildRuntimeAddOnsFromEditorSubNodes on n returns, it has
\* called ReconstructNode on n if and only if the instance of n is a valid
\* UFlowNode, and by then the add-on list of n and of every node below n that
\* the recursion enters mirrors its sub-node sequence, the calls on the nodes
\* below n having returned before.
C31_MirrorBeforeReconstruct ==
    [][HandlerReturns =>
          \A k \in 1 .. Len(Rebuilds') :
              LET n == Rebuilds'[k].Node
                  Below == Entered(WhenReturned(k), {n})
              IN /\ Rebuilds'[k].bReconstructNode <=> NodeInstances[n] = "FlowNode"
                 /\ \A m \in Below :
                        /\ IsValidInstance(WhenReturned(k), m) =>
                               Rebuilds'[k].AddOns[m] =
                                   MirrorSubNodes(WhenReturned(k), SubNodes'[m], <<>>)
                        /\ \E j \in 1 .. k : Rebuilds'[j].Node = m]_vars

\* a handler has rebuilt the mirror of a UFlowNode with an add-on sub-node that
\* has an add-on sub-node of its own
C31_Witness ==
    \E k \in 1 .. Len(Rebuilds) :
        LET n == Rebuilds[k].Node
        IN /\ Rebuilds[k].bReconstructNode
           /\ \E x \in Range(SubNodes[n]) :
                  /\ x \in Range(AddOns[n])
                  /\ AddOns[x] # <<>>

\* ---------------------------------------------------------------- C32
\* the add-ons of the valid sub-nodes of m that have a valid add-on instance,
\* in the order of the sub-node sequence, each once
RECURSIVE ValidAddOnsOf(_, _, _)
ValidAddOnsOf(T, Array, Seen) ==
    IF Array = <<>> THEN <<>>
    ELSE IF /\ Head(Array) \notin T.Garbage
            /\ T.NodeInstances[Head(Array)] = "AddOn"
            /\ Head(Array) \notin Seen
         THEN <<Head(Array)>> \o ValidAddOnsOf(T, Tail(Array), Seen \cup {Head(Array)})
         ELSE ValidAddOnsOf(T, Tail(Array), Seen)

\* the nodes below the nodes of S by the sub-node sequences, those included
RECURSIVE Descendants(_, _)
Descendants(T, S) ==
    LET Grown(S1) == IF S1 = S THEN S ELSE Descendants(T, S1)
    IN Grown(S \cup UNION {Range(T.SubNodes[m]) : m \in S})

\* when the k-th call returns, every valid node of Below with a valid instance
\* has as its add-on list the add-ons of its valid sub-nodes with a valid
\* add-on instance, in the order of its sub-node sequence; a call on a node
\* whose instance is not valid leaves the list of that node as it was
MirroredBelow(k, Below) ==
    LET n == Rebuilds'[k].Node
        T == WhenReturned(k)
    IN /\ \A m \in Below :
              (IsValidNode(T, m) /\ IsValidInstance(T, m)) =>
                  Rebuilds'[k].AddOns[m] = ValidAddOnsOf(T, SubNodes'[m], {})
       /\ ~IsValidInstance(T, n) => Rebuilds'[k].AddOns[n] = AddOns[n]

\* C32 as claimed: after RebuildRuntimeAddOnsFromEditorSubNodes on n every valid
\* node below n that has a valid instance has an add-on list that mirrors its
\* sub-node sequence.
C32_RebuildNeverAborts ==
    [][HandlerReturns =>
          \A k \in 1 .. Len(Rebuilds') :
              MirroredBelow(k, Descendants(WhenReturned(k), {Rebuilds'[k].Node}))]_vars

\* what RebuildRuntimeAddOnsFromEditorSubNodes on n does reach: the valid nodes
\* that are n or below n through valid sub-nodes only
RebuildReachesValidSubNodes ==
    [][HandlerReturns =>
          \A k \in 1 .. Len(Rebuilds') :
              MirroredBelow(k, Entered(WhenReturned(k), {Rebuilds'[k].Node}))]_vars

RECURSIVE GetPinOfDirection(_, _, _, _, _, _)
GetPinOfDirection(Array, Objects, Dir, Index, PinIndex, FoundInputs) ==
    IF PinIndex >= Num(Array) THEN INDEX_NONE
    ELSE IF Objects[At(Array, PinIndex)].Direction = Dir
         THEN IF Index = FoundInputs THEN At(Array, PinIndex)
              ELSE GetPinOfDirection(Array, Objects, Dir, Index, PinIndex + 1, FoundInputs + 1)
         ELSE GetPinOfDirection(Array, Objects, Dir, Index, PinIndex + 1, FoundInputs)

GetInputPin(Array, Objects, InputIndex) ==
    GetPinOfDirection(Array, Objects, EGPD_Input, InputIndex, 0, 0)
GetOutputPin(Array, Objects, InputIndex) ==
    GetPinOfDirection(Array, Objects, EGPD_Output, InputIndex, 0, 0)

\* the two views are the pins of the master sequence of their direction, in
\* the order of the master sequence, so that the i-th pin of a view is the
\* pin GetInputPin / GetOutputPin returns for i
ViewsAreFilters(Array, Inputs, Outputs, Objects) ==
    /\ Inputs = SelectSeq(Array, LAMBDA p : Objects[p].Direction = EGPD_Input)
    /\ Outputs = SelectSeq(Array, LAMBDA p : Objects[p].Direction = EGPD_Output)
    /\ \A i \in 0 .. Num(Inputs) - 1 : At(Inputs, i) = GetInputPin(Array, Objects, i)
    /\ \A i \in 0 .. Num(Outputs) - 1 : At(Outputs, i) = GetOutputPin(Array, Objects, i)

\* C34: the views stay order-preserving filters of the master sequence through
\* every handler but RemoveOrphanedPin: loading, ReconstructNode however it is
\* reached, AddUserInput / AddUserOutput, RemoveInstancePin and the wiring.
C34_ViewsAreFilters ==
    [][(/\ ViewsAreFilters(Pins, InputPins, OutputPins, pin)
        /\ ~\E p \in Range(Pins) : RemoveOrphanedPin(p))
           => ViewsAreFilters(Pins', InputPins', OutputPins', pin')]_vars

\* ---------------------------------------------------------------- C35
\* C35: when a call of ReconstructNode that passed the guard has come to its
\* completion delegate, every orphaned pin of the master sequence is wired.
C35_OrphansAreWired ==
    Completed =>
        \A p \in Range(Pins) : pin[p].bOrphanedPin => pin[p].LinkedTo # {}

\* what the code does keep: the orphaned pins are wired when the call has
\* rebuilt the pins
OrphansAreWiredAfterRebuild ==
    CompletedRebuild =>
        \A p \in Range(Pins) : pin[p].bOrphanedPin => pin[p].LinkedTo # {}

C37_ParentAndChildAgree ==
    ~bEditorStopped =>
        /\ \A P \in Nodes : \A C \in Range(SubNodes[P]) : ParentNode[C] = P
        /\ \A P, Q \in Nodes : P # Q => Range(SubNodes[P]) \cap Range(SubNodes[Q]) = {}
        /\ \A P \in Nodes : \A i, j \in 1 .. Len(SubNodes[P]) :
               SubNodes[P][i] = SubNodes[P][j] => i = j

\* ---------------------------------------------------------------- C38
\* C38: a node for which IsSubNode returns true is one for which it returns
\* true after every step, whatever the step does to its ParentNode and to the
\* sub-node sequence that listed it.
C38_SubNodeStatusIsSticky ==
    [][\A n \in Nodes :
           IsSubNode(Hierarchy, n) => (bIsSubNode'[n] \/ ParentNode'[n] # NULL)]_vars

\* IsSubNode returns true for a node that has no parent and that no node lists
C38_Witness ==
    \E n \in Nodes :
        /\ IsSubNode(Hierarchy, n)
        /\ ParentNode[n] = NULL
        /\ \A P \in Nodes : n \notin Range(SubNodes[P])
        /\ n \notin Garbage

\* ---------------------------------------------------------------- C39
\* C39: while the editor runs, for every valid node the loop of IsAncestorNode
\* ends whatever node it looks for, and the recursion of
\* RebuildRuntimeAddOnsFromEditorSubNodes from it returns.
C39_HierarchyWalksTerminate ==
    ~bEditorStopped =>
        \A n \in Nodes :
            IsValidNode(Hierarchy, n) =>
                /\ \A x \in Nodes :
                       IsAncestorLoopEnds(Hierarchy, ParentNode[n], x, Cardinality(Nodes))
                /\ RebuildReturns(Hierarchy, n)

\* ---------------------------------------------------------------- C40
\* the candidates for the old pin at index i among n new pins, in the order
\* i mod n, (i mod n) + 1, ... around the end: every index of 0 .. n-1 once,
\* and none when n = 0
CyclicOrder(i, n) == [k \in 1 .. n |-> ((i % n) + k - 1) % n]

\* the first candidate of Order that is not in Claimed and has the name
\* OldName, or INDEX_NONE
FirstCandidate(Order, OldName, Claimed) ==
    LET Hits == {k \in 1 .. Len(Order) :
                     /\ Order[k] \notin Claimed
                     /\ pin[At(Pins, Order[k])].PinName = OldName}
    IN IF Hits = {} THEN INDEX_NONE
       ELSE Order[CHOOSE k \in Hits : \A h \in Hits : k <= h]

\* the matches of the old pins from index i down to the first, when Matches
\* are those of the old pins after i
RECURSIVE ScanOldPins(_, _)
ScanOldPins(i, Matches) ==
    LET Found(f) == ScanOldPins(i - 1, IF f = INDEX_NONE THEN Matches
                                       ELSE Matches \cup {<<i, f>>})
    IN IF i < 0 THEN Matches
       ELSE Found(FirstCandidate(CyclicOrder(i, NumNewPins), At(last.OldPins, i).PinName,
                                 {m[2] : m \in Matches}))

\* C40: the matches of a rebuild are those of a scan that takes the old pins
\* from the last index to the first and gives the old pin at index i the first
\* new pin, in the cyclic order from i mod n, that no old pin has claimed and
\* that has its name; every matched index is one of the n new pins, and with
\* n = 0 nothing is matched.
C40_ScanOrder ==
    CompletedRebuild =>
        /\ last.MatchedPins = ScanOldPins(Num(last.OldPins) - 1, {})
        /\ \A m \in last.MatchedPins :
               /\ IsValidIndex(last.OldPins, m[1])
               /\ m[2] >= 0 /\ m[2] < NumNewPins
        /\ NumNewPins = 0 => last.MatchedPins = {}

\* an old pin has claimed a new pin of its name while a new pin of that name
\* at a lower index was still unclaimed, which an old pin before it took
C40_Witness ==
    /\ CompletedRebuild
    /\ \E m1, m2 \in last.MatchedPins :
           /\ m1[1] > m2[1]
           /\ m1[2] > m2[2]
           /\ pin[At(Pins, m1[2])].PinName = pin[At(Pins, m2[2])].PinName
====
